---- MODULE Spec2Model ----
(***************************************************************************)
(* Model of the SQL proxy connection handler                               *)
(* (pkg/ccl/sqlproxyccl/proxy_handler.go): the per-connection state        *)
(* machine of proxyHandler.handle, the pod watcher, and the startup        *)
(* parameter parsing of clusterNameAndTenantFromParams.                    *)
(*                                                                         *)
(* Go strings are modelled as sequences of one-character strings, so that  *)
(* splitting, regular-expression matching, replacing and trimming are      *)
(* computed character by character as the Go code computes them.           *)
(***************************************************************************)
EXTENDS Integers, Sequences, FiniteSets, TLC

(***************************************************************************)
(* Character classes and string helpers (Go's strings / regexp / strconv). *)
(***************************************************************************)
Digits == {"0", "1", "2", "3", "4", "5", "6", "7", "8", "9"}

LowerLetters ==
    {"a", "b", "c", "d", "e", "f", "g", "h", "i", "j", "k", "l", "m",
     "n", "o", "p", "q", "r", "s", "t", "u", "v", "w", "x", "y", "z"}

\* the whitespace of the regexp class \s and of strings.TrimSpace
SpaceChars == {" ", "\t", "\n", "\r", "\f"}

EmptyStr == << >>

\* the least and the greatest element of a non-empty set of integers
MinOf(S) == CHOOSE i \in S : \A j \in S : i <= j

MaxOf(S) == CHOOSE i \in S : \A j \in S : i >= j

\* the least (greatest) element of S, or d when S is empty
MinOr(S, d) == IF S = {} THEN d ELSE MinOf(S)

MaxOr(S, d) == IF S = {} THEN d ELSE MaxOf(S)

\* the pattern p occurs in s starting at (1-based) position i
HasPrefixAt(s, p, i) ==
    /\ i >= 1
    /\ i + Len(p) - 1 <= Len(s)
    /\ \A k \in 1..Len(p) : s[i + k - 1] = p[k]

\* strings.Index from position `from`: the first position >= from where p
\* occurs in s, or 0 when there is none
IndexFrom(s, p, from) == MinOr({i \in from..Len(s) : HasPrefixAt(s, p, i)}, 0)

\* the substring s[a..b] (1-based, inclusive); empty when a > b
Sub(s, a, b) == IF a > b THEN EmptyStr ELSE SubSeq(s, a, b)

RECURSIVE SplitFrom(_, _, _)
\* the parts of s from position `from` on, the next separator being at i
SplitAt(s, sep, from, i) ==
    IF i = 0
    THEN << Sub(s, from, Len(s)) >>
    ELSE << Sub(s, from, i - 1) >> \o SplitFrom(s, sep, i + Len(sep))

SplitFrom(s, sep, from) == SplitAt(s, sep, from, IndexFrom(s, sep, from))

\* strings.Split(s, sep) for a non-empty separator
Split(s, sep) == SplitFrom(s, sep, 1)

\* a faulty variant of LastIndex: the first occurrence
FirstIndex(s, sep) == IndexFrom(s, sep, 1)

\* strings.LastIndex(s, sep): the (1-based) position of the last occurrence,
\* 0 when there is none (Go: -1)
LastIndex(s, sep) == MaxOr({i \in 1..Len(s) : HasPrefixAt(s, sep, i)}, 0)

RECURSIVE ReplaceAllFrom(_, _, _, _)
\* s from position `from` on with old replaced, the next occurrence being at i
ReplaceAllAt(s, old, new, from, i) ==
    IF i = 0
    THEN Sub(s, from, Len(s))
    ELSE Sub(s, from, i - 1) \o new \o ReplaceAllFrom(s, old, new, i + Len(old))

ReplaceAllFrom(s, old, new, from) ==
    ReplaceAllAt(s, old, new, from, IndexFrom(s, old, from))

\* strings.ReplaceAll(s, old, new) for a non-empty old: every non-overlapping
\* occurrence, left to right
ReplaceAll(s, old, new) == ReplaceAllFrom(s, old, new, 1)

\* s cut down to the span of the positions in keep
TrimTo(s, keep) == IF keep = {} THEN EmptyStr ELSE Sub(s, MinOf(keep), MaxOf(keep))

\* strings.TrimSpace
TrimSpace(s) == TrimTo(s, {i \in 1..Len(s) : s[i] \notin SpaceChars})

\* the first position >= i of s holding a character outside (stop = FALSE)
\* or inside (stop = TRUE) SpaceChars; Len(s) + 1 when there is none
ScanTo(s, i, stop) ==
    MinOr({k \in i..Len(s) : (s[k] \in SpaceChars) = stop}, Len(s) + 1)

(***************************************************************************)
(* strconv.ParseUint(s, 10, 64).  A tenant id is kept as its canonical     *)
(* decimal digit string (no leading zeros), which is also what "%d"        *)
(* prints, so 64-bit values need no machine integers in the model.         *)
(***************************************************************************)
DigitSeq == <<"0", "1", "2", "3", "4", "5", "6", "7", "8", "9">>

DigitVal(c) == (CHOOSE n \in 1..10 : DigitSeq[n] = c) - 1

\* math.MaxUint64 = 18446744073709551615, also roachpb.MaxTenantID
MaxUint64Str ==
    <<"1", "8", "4", "4", "6", "7", "4", "4", "0", "7",
      "3", "7", "0", "9", "5", "5", "1", "6", "1", "5">>

\* a digit string without its leading zeros ("0" for an all-zero string)
Canonical(s) ==
    Sub(s, MinOr({i \in 1..Len(s) : s[i] # "0"}, Len(s)), Len(s))

\* a <= b for two digit strings of the same length, k being the first
\* position where they differ (0 if none)
DigitsLeqAt(a, b, k) == k = 0 \/ DigitVal(a[k]) < DigitVal(b[k])

DigitsLeq(a, b) == DigitsLeqAt(a, b, MinOr({i \in 1..Len(a) : a[i] # b[i]}, 0))

\* the value c fits in 64 bits
InUint64Range(c) ==
    \/ Len(c) < Len(MaxUint64Str)
    \/ Len(c) = Len(MaxUint64Str) /\ DigitsLeq(c, MaxUint64Str)

\* [ok, val]: ok iff s is a non-empty string of decimal digits whose value
\* fits in 64 bits; val is the value as a canonical digit string
ParseUint(s) ==
    IF Len(s) > 0 /\ \A i \in 1..Len(s) : s[i] \in Digits
    THEN [ok |-> InUint64Range(Canonical(s)), val |-> Canonical(s)]
    ELSE [ok |-> FALSE, val |-> <<"0">>]

\* roachpb.MinTenantID
MinTenantID == 2

\* a faulty variant of BelowMinTenantID: only tenant 0 is reserved
BelowMinTenantIDZeroOnly(val) == val = <<"0">>

\* tenID < roachpb.MinTenantID.ToUint64(), for a canonical digit string
BelowMinTenantID(val) == Len(val) = 1 /\ DigitVal(val[1]) < MinTenantID

\* clusterNameRegex: ^[a-z0-9][a-z0-9-]{4,18}[a-z0-9]$
ClusterNameRegexMatch(name) ==
    /\ Len(name) >= 1 + 4 + 1
    /\ Len(name) <= 1 + 18 + 1
    /\ name[1] \in LowerLetters \cup Digits
    /\ name[Len(name)] \in LowerLetters \cup Digits
    /\ \A i \in 2..(Len(name) - 1) : name[i] \in LowerLetters \cup Digits \cup {"-"}

\* clusterTenantSep
clusterTenantSep == <<"-">>

(***************************************************************************)
(* clusterIdentifierLongOptionRE: "-c" and any whitespace, or "--"; then   *)
(* "cluster="; then the longest run of non-whitespace (the submatch).      *)
(***************************************************************************)
ClusterFlagKey == <<"c", "l", "u", "s", "t", "e", "r", "=">>

NoMatch == [found |-> FALSE, first |-> 0, last |-> 0, value |-> EmptyStr]

\* a match from i whose submatch starts at v and ends before e
MatchValue(s, i, v, e) ==
    [found |-> TRUE, first |-> i, last |-> e - 1, value |-> Sub(s, v, e - 1)]

\* a match from i, given that its flag prefix ends before j (0: no prefix)
MatchKeyAt(s, i, j) ==
    IF j # 0 /\ HasPrefixAt(s, ClusterFlagKey, j)
    THEN MatchValue(s, i, j + Len(ClusterFlagKey),
                    ScanTo(s, j + Len(ClusterFlagKey), TRUE))
    ELSE NoMatch

\* the match of the expression that starts exactly at position i, if any.
\* The two alternatives exclude each other (second character 'c' or '-'),
\* and neither repetition can give a character back to what follows it, so
\* the leftmost-first match is the greedy one.
MatchFlagAt(s, i) ==
    MatchKeyAt(s, i, IF HasPrefixAt(s, <<"-", "c">>, i) THEN ScanTo(s, i + 2, FALSE)
                     ELSE IF HasPrefixAt(s, <<"-", "-">>, i) THEN i + 2
                     ELSE 0)

RECURSIVE FindAllFrom(_, _, _)
\* the match m and at most n - 1 matches after it
FindAllNext(s, n, m) == << m >> \o FindAllFrom(s, m.last + 1, n - 1)

\* at most n matches, the leftmost one starting at i (0: there is none)
FindAllAt(s, n, i) ==
    IF n = 0 \/ i = 0 THEN << >> ELSE FindAllNext(s, n, MatchFlagAt(s, i))

FindAllFrom(s, from, n) ==
    FindAllAt(s, n, MinOr({i \in from..Len(s) : MatchFlagAt(s, i).found}, 0))

\* clusterIdentifierLongOptionRE.FindAllStringSubmatch(s, n)
FindAllStringSubmatch(s, n) == FindAllFrom(s, 1, n)

(***************************************************************************)
(* parseDatabaseParam, parseOptionsParam, clusterNameAndTenantFromParams.  *)
(* An error is its message; NoErr is Go's nil error.                       *)
(***************************************************************************)
NoErr == "nil"

\* a faulty variant of DatabaseParts: what follows a second dot is ignored
DatabasePartsFirstTwo(databaseParam, parts) ==
    IF Len(parts) <= 1
    THEN [clusterIdentifier |-> EmptyStr, databaseName |-> databaseParam,
          err |-> NoErr]
    ELSE IF parts[1] = EmptyStr \/ parts[2] = EmptyStr
    THEN [clusterIdentifier |-> EmptyStr, databaseName |-> EmptyStr,
          err |-> "invalid database param"]
    ELSE [clusterIdentifier |-> parts[1], databaseName |-> parts[2], err |-> NoErr]

\* parseDatabaseParam, lines 696-710, parts being the split parameter
DatabaseParts(databaseParam, parts) ==
    IF Len(parts) <= 1
    THEN [clusterIdentifier |-> EmptyStr, databaseName |-> databaseParam,
          err |-> NoErr]
    ELSE IF Len(parts) > 2 \/ parts[1] = EmptyStr \/ parts[2] = EmptyStr
    THEN [clusterIdentifier |-> EmptyStr, databaseName |-> EmptyStr,
          err |-> "invalid database param"]
    ELSE [clusterIdentifier |-> parts[1], databaseName |-> parts[2], err |-> NoErr]

parseDatabaseParam(databaseParam) ==
    IF databaseParam = EmptyStr
    THEN [clusterIdentifier |-> EmptyStr, databaseName |-> EmptyStr, err |-> NoErr]
    ELSE DatabaseParts(databaseParam, Split(databaseParam, <<".">>))

\* a faulty variant of OptionsMatches: two flags with the same value count as
\* one
OptionsMatchesDeduplicated(optionsParam, matches) ==
    IF Len(matches) = 0
    THEN [clusterIdentifier |-> EmptyStr, newOptionsParam |-> optionsParam,
          err |-> NoErr]
    ELSE IF Len(matches) > 1 /\ matches[1].value # matches[2].value
    THEN [clusterIdentifier |-> EmptyStr, newOptionsParam |-> EmptyStr,
          err |-> "multiple cluster flags provided"]
    ELSE IF Len(matches[1].value) = 0
    THEN [clusterIdentifier |-> EmptyStr, newOptionsParam |-> EmptyStr,
          err |-> "invalid cluster flag"]
    ELSE [clusterIdentifier |-> matches[1].value,
          newOptionsParam |->
              TrimSpace(ReplaceAll(optionsParam,
                  Sub(optionsParam, matches[1].first, matches[1].last),
                  EmptyStr)),
          err |-> NoErr]

\* parseOptionsParam, lines 730-756, matches being the matches found
OptionsMatches(optionsParam, matches) ==
    IF Len(matches) = 0
    THEN [clusterIdentifier |-> EmptyStr, newOptionsParam |-> optionsParam,
          err |-> NoErr]
    ELSE IF Len(matches) > 1
    THEN [clusterIdentifier |-> EmptyStr, newOptionsParam |-> EmptyStr,
          err |-> "multiple cluster flags provided"]
    ELSE IF Len(matches[1].value) = 0
    THEN [clusterIdentifier |-> EmptyStr, newOptionsParam |-> EmptyStr,
          err |-> "invalid cluster flag"]
    ELSE [clusterIdentifier |-> matches[1].value,
          newOptionsParam |->
              TrimSpace(ReplaceAll(optionsParam,
                  Sub(optionsParam, matches[1].first, matches[1].last),
                  EmptyStr)),
          err |-> NoErr]

parseOptionsParam(optionsParam) ==
    OptionsMatches(optionsParam, FindAllStringSubmatch(optionsParam, 2))

\* msg.Parameters[key]: a Go map lookup yields "" for an absent key
Param(params, key) == IF key \in DOMAIN params THEN params[key] ELSE EmptyStr

\* a faulty variant of RewrittenParameters: only database and options are
\* copied
RewrittenKnownKeys(params, databaseName, newOptionsParam) ==
    [key \in {k \in DOMAIN params \cap {"database", "options"} :
                 k # "options" \/ newOptionsParam # EmptyStr} |->
        IF key = "database" THEN databaseName ELSE newOptionsParam]

\* a faulty variant of RewrittenParameters: the parameters are passed on as
\* they came
RewrittenNothing(params, databaseName, newOptionsParam) == params

\* the parameter map built by the copy loop of clusterNameAndTenantFromParams
RewrittenParameters(params, databaseName, newOptionsParam) ==
    [key \in {k \in DOMAIN params : k # "options" \/ newOptionsParam # EmptyStr} |->
        IF key = "database" THEN databaseName
        ELSE IF key = "options" THEN newOptionsParam
        ELSE params[key]]

\* a failed call returns the message it was given and roachpb.MaxTenantID
ParseFailure(msg, err) ==
    [msg |-> msg, clusterName |-> EmptyStr, tenID |-> MaxUint64Str, err |-> err]

\* a faulty variant of ValidateIdentifier: the message given is rewritten in
\* place and returned
ValidateIdentifierInPlace(msg, db, opt, clusterName, tenID) ==
    IF ~ClusterNameRegexMatch(clusterName)
    THEN ParseFailure(msg, "invalid cluster identifier: cluster name")
    ELSE IF ~tenID.ok
    THEN ParseFailure(msg, "invalid cluster identifier: tenant ID")
    ELSE IF BelowMinTenantID(tenID.val)
    THEN ParseFailure(msg, "invalid cluster identifier: reserved tenant ID")
    ELSE [msg |-> [obj |-> msg.obj,
                   Parameters |-> RewrittenParameters(msg.Parameters,
                                      db.databaseName, opt.newOptionsParam)],
          clusterName |-> clusterName,
          tenID |-> tenID.val,
          err |-> NoErr]

\* lines 632-681: the identifier is split into clusterName and the tenant
\* id string, parsed to tenID
ValidateIdentifier(msg, db, opt, clusterName, tenID) ==
    IF ~ClusterNameRegexMatch(clusterName)
    THEN ParseFailure(msg, "invalid cluster identifier: cluster name")
    ELSE IF ~tenID.ok
    THEN ParseFailure(msg, "invalid cluster identifier: tenant ID")
    ELSE IF BelowMinTenantID(tenID.val)
    THEN ParseFailure(msg, "invalid cluster identifier: reserved tenant ID")
    ELSE [msg |-> [obj |-> "outMsg",
                   Parameters |-> RewrittenParameters(msg.Parameters,
                                      db.databaseName, opt.newOptionsParam)],
          clusterName |-> clusterName,
          tenID |-> tenID.val,
          err |-> NoErr]

\* lines 622-632: sepIdx is the position of the last separator
SplitIdentifier(msg, db, opt, clusterIdentifier, sepIdx) ==
    IF sepIdx = 0 \/ sepIdx = Len(clusterIdentifier)
    THEN ParseFailure(msg, "invalid cluster identifier: missing tenant ID")
    ELSE ValidateIdentifier(msg, db, opt,
             Sub(clusterIdentifier, 1, sepIdx - 1),
             ParseUint(Sub(clusterIdentifier, sepIdx + 1, Len(clusterIdentifier))))

\* a faulty variant of ChooseIdentifier: the database's identifier wins over
\* a different one in the options
ChooseIdentifierOfDatabase(msg, db, opt) ==
    IF db.err # NoErr THEN ParseFailure(msg, db.err)
    ELSE IF opt.err # NoErr THEN ParseFailure(msg, opt.err)
    ELSE IF db.clusterIdentifier = EmptyStr /\ opt.clusterIdentifier = EmptyStr
    THEN ParseFailure(msg, "missing cluster identifier")
    ELSE IF db.clusterIdentifier = EmptyStr
    THEN SplitIdentifier(msg, db, opt, opt.clusterIdentifier,
                         LastIndex(opt.clusterIdentifier, clusterTenantSep))
    ELSE SplitIdentifier(msg, db, opt, db.clusterIdentifier,
                         LastIndex(db.clusterIdentifier, clusterTenantSep))

\* lines 591-622: db and opt are the results of the two parameter parsers
ChooseIdentifier(msg, db, opt) ==
    IF db.err # NoErr THEN ParseFailure(msg, db.err)
    ELSE IF opt.err # NoErr THEN ParseFailure(msg, opt.err)
    ELSE IF db.clusterIdentifier = EmptyStr /\ opt.clusterIdentifier = EmptyStr
    THEN ParseFailure(msg, "missing cluster identifier")
    ELSE IF /\ db.clusterIdentifier # EmptyStr
            /\ opt.clusterIdentifier # EmptyStr
            /\ db.clusterIdentifier # opt.clusterIdentifier
    THEN ParseFailure(msg, "multiple different cluster identifiers provided")
    ELSE IF db.clusterIdentifier = EmptyStr
    THEN SplitIdentifier(msg, db, opt, opt.clusterIdentifier,
                         LastIndex(opt.clusterIdentifier, clusterTenantSep))
    ELSE SplitIdentifier(msg, db, opt, db.clusterIdentifier,
                         LastIndex(db.clusterIdentifier, clusterTenantSep))

\* a startup message is [obj, Parameters]: obj names the Go object, so that
\* two messages with equal parameters are still told apart
clusterNameAndTenantFromParams(msg) ==
    ChooseIdentifier(msg,
        parseDatabaseParam(Param(msg.Parameters, "database")),
        parseOptionsParam(Param(msg.Parameters, "options")))

(***************************************************************************)
(* Errors.  code is the code of a *codeError ("none" for any other error), *)
(* grpc the gRPC status that status.Code reports for it, msg the message   *)
(* (a format string when args holds the formatted arguments).              *)
(***************************************************************************)
Err(code, grpc, msg) ==
    [code |-> code, grpc |-> grpc, msg |-> msg, args |-> << >>, hint |-> ""]

NilErr == Err("nil", "OK", "")

\* newErrorf(code, format, args...)
newErrorf(code, msg, args) ==
    [code |-> code, grpc |-> "Unknown", msg |-> msg, args |-> args, hint |-> ""]

\* errors.WithHint(e, hint)
WithHint(e, hint) == [e EXCEPT !.hint = hint]

throttledErrorHint ==
    "Connection throttling is triggered by repeated authentication failure. Make sure the username and password are correct."

\* a faulty variant of throttledError: the hint is left out
throttledErrorNoHint ==
    newErrorf("codeProxyRefusedConnection", "connection attempt throttled", << >>)

\* errors.WithHint(newErrorf(codeProxyRefusedConnection, ...), throttledErrorHint)
throttledError ==
    WithHint(newErrorf("codeProxyRefusedConnection", "connection attempt throttled", << >>),
             throttledErrorHint)

\* the error the handler makes of an unresolved tenant, and of an outgoing
\* address that does not split into host and port
ClusterNotFoundErr(name, tenID) ==
    newErrorf("codeParamsRoutingFailed", "cluster %s-%d not found", <<name, tenID>>)

\* a faulty variant of ParamsRoutingErr: the parse error goes out uncoded
ParamsRoutingErrUncoded(parseErr) == Err("none", "Unknown", parseErr)

\* &codeError{codeParamsRoutingFailed, err} for a parse error
ParamsRoutingErr(parseErr) == newErrorf("codeParamsRoutingFailed", parseErr, << >>)

\* a faulty variant of DenylistRevokedErr: the code of the refusal at
\* subscription time
DenylistRevokedErrRefused ==
    newErrorf("codeProxyRefusedConnection", "connection added to deny list: %v", << >>)

\* the callbacks' and the final select's errors
DenylistRevokedErr ==
    newErrorf("codeExpiredClientConnection", "connection added to deny list: %v", << >>)

IdleDisconnectErr == newErrorf("codeIdleDisconnect", "idle connection closed", << >>)

ExpiredCtxErr == newErrorf("codeExpiredClientConnection", "expired client conn: %v", << >>)

(***************************************************************************)
(* Inputs of the model: what the environment of one connection can supply. *)
(***************************************************************************)
\* the largest number of iterations of the resolve+dial loop that is explored
MaxIter == 2

\* errConnection := make(chan error, 1)
ErrConnectionCap == 1

\* startup messages a client may send (msg.Parameters)
StartupParameters ==
    { [database |-> <<"h", "a", "p", "p", "y", "-", "k", "o", "a", "l", "a", "-", "3", ".", "d", "e", "f", "a", "u", "l", "t", "d", "b">>, user |-> <<"b", "o", "b">>],
      [database |-> <<"d", "e", "f", "a", "u", "l", "t", "d", "b">>, options |-> <<"-", "c", " ", "c", "l", "u", "s", "t", "e", "r", "=", "f", "o", "o", "b", "a", "r", "-", "7", "-", "1", "0", " ", "-", "c", " ", "x", "=", "y">>, user |-> <<"b", "o", "b">>],
      [database |-> <<"a", "-", "b", ".", "d", "b">>, options |-> <<"-", "-", "c", "l", "u", "s", "t", "e", "r", "=", "h", "a", "p", "p", "y", "-", "k", "o", "a", "l", "a", "-", "3">>],
      [database |-> <<"k", "o", "a", "l", "a", "-", "1", ".", "d", "b">>, user |-> <<"b", "o", "b">>] }

\* conn.RemoteAddr().String() of the client connection
RemoteAddrs == { <<"1", "0", ".", "0", ".", "0", ".", "9", ":", "5", "4", "3", "2">>, <<":", ":", "1", ":", "5", "4", "3", "2">> }

\* pod addresses the directory hands out; the second does not split into
\* host and port
PodAddrs == { <<"1", "0", ".", "1", ".", "0", ".", "1", ":", "2", "6", "2", "5", "7">>, <<"1", "0", ".", "1", ".", "0", ".", "2", ":", "a", ":", "b">> }

\* the ProxyOptions that matter to a connection
ProxyOptionsSet ==
    { [DirectoryAddr |-> "dir:8080", DrainTimeout |-> 1, Insecure |-> TRUE,
       SkipVerify |-> FALSE, RoutingRule |-> <<"s", "q", "l", "h", "o", "s", "t", ":", "2", "6", "2", "5", "7">>],
      [DirectoryAddr |-> "dir:8080", DrainTimeout |-> 0, Insecure |-> FALSE,
       SkipVerify |-> FALSE, RoutingRule |-> <<"{", "{", "c", "l", "u", "s", "t", "e", "r", "N", "a", "m", "e", "}", "}", ".", "s", "v", "c", ":", "2", "6", "2", "5", "7">>],
      [DirectoryAddr |-> "", DrainTimeout |-> 1, Insecure |-> FALSE,
       SkipVerify |-> TRUE, RoutingRule |-> <<"{", "{", "c", "l", "u", "s", "t", "e", "r", "N", "a", "m", "e", "}", "}", "-", "0", ".", "{", "{", "c", "l", "u", "s", "t", "e", "r", "N", "a", "m", "e", "}", "}", ".", "s", "v", "c", ":", "2", "6", "2", "5", "7">>] }

\* errors of the collaborators
DirectoryUnavailableErr == Err("none", "Unavailable", "directory: rpc unavailable")

DirectoryNotFoundErr == Err("none", "NotFound", "directory: tenant not found")

ReportFailureErr == Err("none", "Unavailable", "directory: report failure failed")

BackendDownErr == newErrorf("codeBackendDown", "unable to reach backend SQL server", << >>)

BackendDialErr == newErrorf("codeBackendDial", "backend refused the startup", << >>)

FrontendAdmitErr == newErrorf("codeClientReadFailed", "while receiving startup message", << >>)

AuthFailedErr == newErrorf("codeAuthFailed", "authentication failed", << >>)

RelayErr == newErrorf("codeClientDisconnected", "copying from target server to client", << >>)

(***************************************************************************)
(* addr.SplitHostPort(v, ""): the host of "host:port" or of a bare "host"; *)
(* more than one colon is an error.                                        *)
(***************************************************************************)
SplitAtColons(v, colons) ==
    IF Cardinality(colons) > 1 THEN [ok |-> FALSE, host |-> EmptyStr]
    ELSE IF colons = {} THEN [ok |-> TRUE, host |-> v]
    ELSE [ok |-> TRUE, host |-> Sub(v, 1, MinOf(colons) - 1)]

SplitHostPort(v) == SplitAtColons(v, {i \in 1..Len(v) : v[i] = ":"})

(***************************************************************************)
(* State.                                                                  *)
(***************************************************************************)
VARIABLES
    options,          \* the ProxyOptions the handler was built with
    handler,          \* which optional parts newProxyHandler created
    armed,            \* idle monitor: addresses with idle checks set
    lastDraining,     \* history: addresses whose last pod event had state DRAINING
    pc,               \* where handle is for the connection
    heap,             \* startup message objects: object name -> Parameters
    msg,              \* the message FrontendAdmit returned ("nil" if none)
    backendStartupMsg,\* the message handle passes to BackendDial
    remoteAddr,       \* conn.RemoteAddr().String()
    clusterName,      \* deduced cluster name
    tenID,            \* deduced tenant id (canonical digits)
    iter,             \* iterations of the resolve+dial loop started
    err,              \* handle's err variable
    outgoingAddress,  \* handle's outgoingAddress variable
    crdbConn,         \* handle's crdbConn variable
    errConnection,    \* the buffered error channel
    listening,        \* the denylist listener is registered
    denyFired,        \* the denylist watcher has called the callback
    idleFired,        \* the idle monitor has called the callback
    relay,            \* the relay goroutine: none, copying, sending, done
    blocked,          \* writers stuck in a send on errConnection
    ctxCancelled,     \* the connection's context is done
    quiescing,        \* stopper.ShouldQuiesce() is closed
    loopCancelled,    \* history: r.Next() returned false
    throttleTags,     \* handle's throttleTags variable
    throttleTime,     \* handle's throttleTime variable
    loginChecks,      \* history: every LoginCheck call
    attempts,         \* history: every ReportAttempt call
    defers,           \* handle's deferred calls, most recent last
    closed,           \* connections that were closed
    ret,              \* what handle returned (NotReturned before)
    calls,            \* history: calls to collaborators, in order
    dials,            \* history: every BackendDial call
    reports,          \* history: every ReportFailure call
    sent,             \* history: errors sent to the client by handle
    firstErr,         \* history: first error written to errConnection
    viaSlot           \* history: handle returned what it read from errConnection

vars == <<options, handler, armed, lastDraining, pc, heap, msg, backendStartupMsg, remoteAddr,
          clusterName, tenID, iter, err, outgoingAddress, crdbConn,
          errConnection, listening, denyFired, idleFired, relay, blocked,
          ctxCancelled, quiescing, loopCancelled, throttleTags, throttleTime,
          loginChecks, attempts, defers, closed, ret, calls,
          dials, reports, sent, firstErr, viaSlot>>

\* a backend connection: its address, whether DetectIdle wrapped it, and
\* (history) whether the address had idle checks set when it was wrapped
NoConn == [nil |-> TRUE, addr |-> EmptyStr, wrapped |-> FALSE, armedAtWrap |-> FALSE]

Conn(addr) == [nil |-> FALSE, addr |-> addr, wrapped |-> FALSE, armedAtWrap |-> FALSE]

\* firstErr before any write to errConnection
NoWrite == Err("no write", "OK", "")

NotReturned == Err("not returned", "OK", "")

\* a call to a collaborator and the error it returned
Call(op, e) == [op |-> op, err |-> e]

\* a call to Directory.EnsureTenantAddr that returned the address addr
Resolved(addr) == [op |-> "EnsureTenantAddr", err |-> NilErr, addr |-> addr]

\* throttler.ConnectionTags{IP, TenantID}
ConnectionTags(ip, tenantID) == [IP |-> ip, TenantID |-> tenantID]

\* throttleTags before line 269
NoTags == ConnectionTags(EmptyStr, EmptyStr)

\* the zero time.Time, which throttleTime holds before LoginCheck and which
\* comes with a refusal
ZeroTime == 0

\* a faulty variant of newProxyHandler: the idle monitor is started whatever
\* DrainTimeout is
newProxyHandlerAlwaysMonitoring(opts) ==
    [directory |-> opts.DirectoryAddr # "",
     idleMonitor |-> opts.DirectoryAddr # ""]

\* newProxyHandler: the directory exists iff DirectoryAddr is set; the idle
\* monitor and the pod watcher exist iff, in addition, DrainTimeout is not 0
newProxyHandler(opts) ==
    [directory |-> opts.DirectoryAddr # "",
     idleMonitor |-> opts.DirectoryAddr # "" /\ opts.DrainTimeout # 0]

Init ==
    /\ options \in ProxyOptionsSet
    /\ handler = newProxyHandler(options)
    /\ armed = {}
    /\ lastDraining = {}
    /\ pc = "FrontendAdmit"
    /\ heap = << >>
    /\ msg = "nil"
    /\ backendStartupMsg = "nil"
    /\ remoteAddr = EmptyStr
    /\ clusterName = EmptyStr
    /\ tenID = <<"0">>
    /\ iter = 0
    /\ err = NilErr
    /\ outgoingAddress = EmptyStr
    /\ crdbConn = NoConn
    /\ errConnection = << >>
    /\ listening = FALSE
    /\ denyFired = FALSE
    /\ idleFired = FALSE
    /\ relay = "none"
    /\ blocked = {}
    /\ ctxCancelled = FALSE
    /\ quiescing = FALSE
    /\ loopCancelled = FALSE
    /\ throttleTags = NoTags
    /\ throttleTime = ZeroTime
    /\ loginChecks = << >>
    /\ attempts = << >>
    /\ defers = << >>
    /\ closed = {}
    /\ ret = NotReturned
    /\ calls = << >>
    /\ dials = << >>
    /\ reports = << >>
    /\ sent = << >>
    /\ firstErr = NoWrite
    /\ viaSlot = FALSE

(***************************************************************************)
(* Returning from handle: the deferred calls run, most recent first.       *)
(***************************************************************************)
Reverse(seq) == [i \in 1..Len(seq) |-> seq[Len(seq) + 1 - i]]

\* a faulty variant of DeferredCalls: the listener's removal is left out
DeferredCallsButListener(dfs) ==
    [i \in 1..Len(SelectSeq(dfs, LAMBDA d : d # "removeListener")) |->
        Call(Reverse(SelectSeq(dfs, LAMBDA d : d # "removeListener"))[i], NilErr)]

DeferredCalls(dfs) == [i \in 1..Len(dfs) |-> Call(Reverse(dfs)[i], NilErr)]

Deferred(dfs, op) == \E i \in 1..Len(dfs) : dfs[i] = op

\* handle ends in state endPc with result r; before is the call history up
\* to the return and dfs the deferred calls registered by then
Finish(endPc, r, before, dfs) ==
    /\ pc' = endPc
    /\ ret' = r
    /\ calls' = before \o DeferredCalls(dfs)
    /\ defers' = << >>
    /\ listening' = (listening /\ ~Deferred(dfs, "removeListener"))
    /\ closed' = closed \cup {c \in {"conn", "crdbConn"} :
                                 IF c = "conn" THEN Deferred(dfs, "conn.Close")
                                 ELSE Deferred(dfs, "crdbConn.Close") /\ ~crdbConn.nil}

\* a faulty variant of Return: the deferred calls are not run
ReturnWithoutDefers(r, before, dfs) == Finish("returned", r, before, << >>)

Return(r, before, dfs) == Finish("returned", r, before, dfs)

\* SendErrToClient / updateMetricsAndSendErrToClient
SendErrToClient(e) == sent' = Append(sent, e)

(***************************************************************************)
(* handle, lines 210-222: FrontendAdmit.                                   *)
(***************************************************************************)
\* a faulty variant of CancelRequestResult: the missing message is an error
CancelRequestResultErr == FrontendAdmitErr

\* line 221: what handle returns when FrontendAdmit gives neither a message
\* nor an error
CancelRequestResult == NilErr

FrontendAdmit ==
    /\ pc = "FrontendAdmit"
    /\ \/ /\ SendErrToClient(FrontendAdmitErr)
          /\ Return(FrontendAdmitErr, Append(calls, Call("FrontendAdmit", FrontendAdmitErr)),
                    <<"conn.Close">>)
          /\ UNCHANGED <<heap, msg, remoteAddr>>
       \/ /\ Return(CancelRequestResult, Append(calls, Call("FrontendAdmit", NilErr)),
                    <<"conn.Close">>)
          /\ UNCHANGED <<heap, msg, remoteAddr, sent>>
       \/ /\ \E p \in StartupParameters : heap' = ("msg" :> p)
          /\ \E ra \in RemoteAddrs : remoteAddr' = ra
          /\ msg' = "msg"
          /\ pc' = "clusterNameAndTenantFromParams"
          /\ defers' = <<"conn.Close">>
          /\ calls' = Append(calls, Call("FrontendAdmit", NilErr))
          /\ UNCHANGED <<sent, ret, listening, closed>>
    /\ UNCHANGED <<options, handler, throttleTags, throttleTime, loginChecks, attempts, armed, lastDraining, backendStartupMsg, clusterName, tenID,
                   iter, err, outgoingAddress, crdbConn, errConnection, denyFired,
                   idleFired, relay, blocked, ctxCancelled, quiescing, loopCancelled, dials,
                   reports, firstErr, viaSlot>>

(***************************************************************************)
(* handle, lines 224-247: parse the parameters, add crdb:remote_addr to    *)
(* the message for the backend, split the client address.                  *)
(***************************************************************************)
\* Go's m[key] = value on a map
SetParam(params, key, value) == (key :> value) @@ params

\* the object handle works on after a successful parse: storing the returned
\* message and then assigning crdb:remote_addr through backendStartupMsg
StoreBackendStartupMsg(h, m, ra) ==
    LET stored == (m.obj :> m.Parameters) @@ h
    IN  [stored EXCEPT ![m.obj] = SetParam(stored[m.obj], "crdb:remote_addr", ra)]

\* newErrorf(codeParamsRoutingFailed, "unexpected connection address")
UnexpectedAddrErr ==
    newErrorf("codeParamsRoutingFailed", "unexpected connection address", << >>)

\* lines 227-247, r being what clusterNameAndTenantFromParams returned
AfterParse(r, after) ==
    IF r.err # NoErr
    THEN /\ SendErrToClient(ParamsRoutingErr(r.err))
         /\ Return(ParamsRoutingErr(r.err), after, defers)
         /\ UNCHANGED <<heap, backendStartupMsg, clusterName, tenID>>
    ELSE /\ backendStartupMsg' = r.msg.obj
         /\ heap' = StoreBackendStartupMsg(heap, r.msg, remoteAddr)
         /\ clusterName' = r.clusterName
         /\ tenID' = r.tenID
         /\ IF ~SplitHostPort(remoteAddr).ok
            THEN /\ SendErrToClient(UnexpectedAddrErr)
                 /\ Return(UnexpectedAddrErr, after, defers)
            ELSE /\ pc' = "ListenForDenied"
                 /\ calls' = after
                 /\ UNCHANGED <<sent, ret, defers, listening, closed>>

ParseResult == clusterNameAndTenantFromParams([obj |-> msg, Parameters |-> heap[msg]])

ParseParams ==
    /\ pc = "clusterNameAndTenantFromParams"
    /\ \E r \in {ParseResult} :
          AfterParse(r, Append(calls, Call("clusterNameAndTenantFromParams",
                                           IF r.err = NoErr THEN NilErr
                                           ELSE ParamsRoutingErr(r.err))))
    /\ UNCHANGED <<options, handler, throttleTags, throttleTime, loginChecks, attempts, armed, lastDraining, msg, remoteAddr, iter, err,
                   outgoingAddress, crdbConn, errConnection, denyFired, idleFired,
                   relay, blocked, ctxCancelled, quiescing, loopCancelled, dials, reports,
                   firstErr, viaSlot>>

(***************************************************************************)
(* handle, lines 249-267: subscribe to the denylist.                       *)
(***************************************************************************)
ConnectionRefusedErr == newErrorf("codeProxyRefusedConnection", "connection refused", << >>)

\* what denyListWatcher.ListenForDenied may return: nil, or the entry the
\* connection matches
ListenForDeniedResults == {NilErr, Err("none", "Unknown", "connection matches denylist entry")}

\* a faulty variant of DenylistRefuses: the subscription's error is not
\* looked at
DenylistRefusesNever(listenErr) == FALSE

\* line 261: the subscription's error refuses the connection
DenylistRefuses(listenErr) == listenErr # NilErr

ListenForDenied ==
    /\ pc = "ListenForDenied"
    /\ \E listenErr \in ListenForDeniedResults :
          IF DenylistRefuses(listenErr)
          THEN /\ SendErrToClient(ConnectionRefusedErr)
               /\ Return(ConnectionRefusedErr,
                         Append(calls, Call("ListenForDenied", listenErr)), defers)
          ELSE /\ pc' = "LoginCheck"
               /\ listening' = (listenErr = NilErr)
               /\ defers' = Append(defers, "removeListener")
               /\ calls' = Append(calls, Call("ListenForDenied", listenErr))
               /\ UNCHANGED <<sent, ret, closed>>
    /\ UNCHANGED <<options, handler, throttleTags, throttleTime, loginChecks, attempts, armed, lastDraining, heap, msg, backendStartupMsg, remoteAddr,
                   clusterName, tenID, iter, err, outgoingAddress, crdbConn,
                   errConnection, denyFired, idleFired, relay, blocked,
                   ctxCancelled, quiescing, loopCancelled, dials, reports,
                   firstErr, viaSlot>>

(***************************************************************************)
(* handle, lines 269-276: the throttler's LoginCheck.                      *)
(***************************************************************************)
\* what throttleService.LoginCheck may return
LoginCheckResults == {NilErr, Err("none", "Unknown", "throttled")}

\* the wall time at which LoginCheck is called, later than the zero time
ThrottleTimes == {1}

\* the time LoginCheck returns: the current time with nil, the zero time with
\* a refusal
LoginCheckTime(loginErr, now) == IF loginErr = NilErr THEN now ELSE ZeroTime

\* a faulty variant of ThrottleRefuses: the throttler's error is not looked at
ThrottleRefusesNever(loginErr) == FALSE

\* line 271: the throttler's error refuses the connection
ThrottleRefuses(loginErr) == loginErr # NilErr

LoginCheck ==
    /\ pc = "LoginCheck"
    /\ \E loginErr \in LoginCheckResults, now \in ThrottleTimes :
          /\ throttleTags' = ConnectionTags(SplitHostPort(remoteAddr).host, tenID)
          /\ throttleTime' = LoginCheckTime(loginErr, now)
          /\ loginChecks' = Append(loginChecks,
                 [tags |-> throttleTags', throttleTime |-> throttleTime', err |-> loginErr])
          /\ IF ThrottleRefuses(loginErr)
             THEN /\ SendErrToClient(throttledError)
                  /\ Return(throttledError, Append(calls, Call("LoginCheck", loginErr)),
                            defers)
             ELSE /\ pc' = "retry.Next"
                  /\ calls' = Append(calls, Call("LoginCheck", loginErr))
                  /\ UNCHANGED <<sent, ret, defers, listening, closed>>
    /\ UNCHANGED <<options, handler, attempts, armed, lastDraining, heap, msg, backendStartupMsg, remoteAddr,
                   clusterName, tenID, iter, err, outgoingAddress, crdbConn,
                   errConnection, denyFired, idleFired, relay, blocked,
                   ctxCancelled, quiescing, loopCancelled, dials, reports,
                   firstErr, viaSlot>>

(***************************************************************************)
(* handle, line 297: r.Next() of retry.StartWithCtx(ctx, retryOpts).  The  *)
(* first call returns true at once; a later call waits for the backoff and *)
(* returns false when the context is done.                                 *)
(***************************************************************************)
RetryNext ==
    /\ pc = "retry.Next"
    /\ IF iter > 0 /\ ctxCancelled
       THEN pc' = "afterLoop" /\ iter' = iter /\ loopCancelled' = TRUE
       ELSE /\ iter < MaxIter
            /\ pc' = "outgoingAddress"
            /\ iter' = iter + 1
            /\ UNCHANGED loopCancelled
    /\ UNCHANGED <<options, handler, throttleTags, throttleTime, loginChecks, attempts, armed, lastDraining, heap, msg, backendStartupMsg, remoteAddr,
                   clusterName, tenID, err, outgoingAddress, crdbConn,
                   errConnection, listening, denyFired, idleFired, relay, blocked,
                   ctxCancelled, quiescing, defers, closed, ret, calls, dials,
                   reports, sent, firstErr, viaSlot>>

(***************************************************************************)
(* outgoingAddress, lines 488-515, and its use in handle, lines 299-321.   *)
(***************************************************************************)
\* what Directory.EnsureTenantAddr may return
EnsureTenantAddrResults ==
    {[addr |-> a, err |-> NilErr] : a \in PodAddrs}
    \cup {[addr |-> EmptyStr, err |-> e] :
             e \in {DirectoryUnavailableErr, DirectoryNotFoundErr}}

ClusterNamePlaceholder == <<"{", "{", "c", "l", "u", "s", "t", "e", "r", "N", "a", "m", "e", "}", "}">>

\* status.Error(codes.NotFound, err.Error()) for a failed resolveTCPAddr
ResolveNotFoundErr == Err("none", "NotFound", "lookup: no such host")

\* lines 504-514: the routing rule with the placeholder substituted, which
\* resolveTCPAddr resolves iff dnsOk
RoutingRuleAddress(rule, dnsOk, dirCall) ==
    IF dnsOk
    THEN [addr |-> rule, err |-> NilErr,
          calls |-> Append(dirCall, Call("resolveTCPAddr", NilErr))]
    ELSE [addr |-> EmptyStr, err |-> ResolveNotFoundErr,
          calls |-> Append(dirCall, Call("resolveTCPAddr", ResolveNotFoundErr))]

\* a faulty variant of outgoingAddressOf: the routing rule gets the cluster
\* name without the tenant id
outgoingAddressOfNameOnly(h, opts, name, tid, dirRes, dnsOk) ==
    IF h.directory /\ dirRes.err = NilErr
    THEN [addr |-> dirRes.addr, err |-> NilErr,
          calls |-> << Resolved(dirRes.addr) >>]
    ELSE IF h.directory /\ dirRes.err.grpc # "NotFound"
    THEN [addr |-> EmptyStr, err |-> dirRes.err,
          calls |-> << Call("EnsureTenantAddr", dirRes.err) >>]
    ELSE RoutingRuleAddress(
             ReplaceAll(opts.RoutingRule, ClusterNamePlaceholder, name),
             dnsOk,
             IF h.directory THEN << Call("EnsureTenantAddr", dirRes.err) >> ELSE << >>)

\* the result of outgoingAddress when the directory (if any) answers dirRes
\* and resolveTCPAddr succeeds iff dnsOk; calls lists the collaborators used
outgoingAddressOf(h, opts, name, tid, dirRes, dnsOk) ==
    IF h.directory /\ dirRes.err = NilErr
    THEN [addr |-> dirRes.addr, err |-> NilErr,
          calls |-> << Resolved(dirRes.addr) >>]
    ELSE IF h.directory /\ dirRes.err.grpc # "NotFound"
    THEN [addr |-> EmptyStr, err |-> dirRes.err,
          calls |-> << Call("EnsureTenantAddr", dirRes.err) >>]
    ELSE RoutingRuleAddress(
             ReplaceAll(opts.RoutingRule, ClusterNamePlaceholder,
                        name \o <<"-">> \o tid),
             dnsOk,
             IF h.directory THEN << Call("EnsureTenantAddr", dirRes.err) >> ELSE << >>)

\* a faulty variant of ResolveIsTerminal: any failure to resolve ends the loop
ResolveAlwaysTerminal(e) == TRUE

\* line 303: status.Code(err) is codes.NotFound
ResolveIsTerminal(e) == e.grpc = "NotFound"

\* a faulty variant of AfterResolve: an address obtained in an earlier
\* iteration is kept and dialed again
AfterResolveKeepingAddress(r) ==
    /\ outgoingAddress' = IF outgoingAddress # EmptyStr /\ r.err = NilErr
                          THEN outgoingAddress ELSE r.addr
    /\ calls' = calls \o r.calls
    /\ IF r.err = NilErr
       THEN err' = NilErr /\ pc' = "BackendDial"
       ELSE IF ~ResolveIsTerminal(r.err)
       THEN err' = r.err /\ pc' = "retry.Next"
       ELSE err' = ClusterNotFoundErr(clusterName, tenID) /\ pc' = "afterLoop"

\* lines 299-321, r being what outgoingAddress returned
AfterResolve(r) ==
    /\ outgoingAddress' = r.addr
    /\ calls' = calls \o r.calls
    /\ IF r.err = NilErr
       THEN err' = NilErr /\ pc' = "BackendDial"
       ELSE IF ~ResolveIsTerminal(r.err)
       THEN err' = r.err /\ pc' = "retry.Next"
       ELSE err' = ClusterNotFoundErr(clusterName, tenID) /\ pc' = "afterLoop"

ResolveAddress ==
    /\ pc = "outgoingAddress"
    /\ \E dirRes \in EnsureTenantAddrResults, dnsOk \in BOOLEAN :
          AfterResolve(outgoingAddressOf(handler, options, clusterName, tenID,
                                         dirRes, dnsOk))
    /\ UNCHANGED <<options, handler, throttleTags, throttleTime, loginChecks, attempts, armed, lastDraining, heap, msg, backendStartupMsg, remoteAddr,
                   clusterName, tenID, iter, crdbConn, errConnection, listening,
                   denyFired, idleFired, relay, blocked, ctxCancelled, quiescing, loopCancelled,
                   defers, closed, ret, dials, reports, sent, firstErr, viaSlot>>

(***************************************************************************)
(* handle, lines 323-387: the TLS configuration, BackendDial, and the      *)
(* report to the directory after a codeBackendDown.                        *)
(***************************************************************************)
NilTLSConfig == [nil |-> TRUE, ServerName |-> EmptyStr, InsecureSkipVerify |-> FALSE]

\* a faulty variant of TLSConfigFor: the backend's certificate is never verified
TLSConfigForSkipping(opts, host) ==
    IF opts.Insecure THEN NilTLSConfig
    ELSE [nil |-> FALSE, ServerName |-> host, InsecureSkipVerify |-> TRUE]

TLSConfigFor(opts, host) ==
    IF opts.Insecure THEN NilTLSConfig
    ELSE [nil |-> FALSE, ServerName |-> host, InsecureSkipVerify |-> opts.SkipVerify]

\* what BackendDial may return
BackendDialResults == {NilErr, BackendDownErr, BackendDialErr}

\* what Directory.ReportFailure may return
ReportFailureResults == {NilErr, ReportFailureErr}

\* errors.As(err, &codeErr) && codeErr.code == codeBackendDown
IsBackendDown(e) == e # NilErr /\ e.code = "codeBackendDown"

\* a faulty variant of ReportsFailure: any failed dial is reported
ReportsAnyFailure(h, dialErr) == dialErr # NilErr /\ h.directory

\* handle reports a codeBackendDown dial to the directory iff there is one
ReportsFailure(h, dialErr) == IsBackendDown(dialErr) /\ h.directory

\* a faulty variant of DialedMsg: the client's own message is forwarded
DialedMsgOriginal(h, original, rewritten) == [obj |-> original, Parameters |-> h[original]]

\* the message BackendDial is given
DialedMsg(h, original, rewritten) == [obj |-> rewritten, Parameters |-> h[rewritten]]

\* lines 353-387: BackendDial returned dialErr and, if called,
\* ReportFailure returned reportErr
AfterDial(tlsConf, dialErr, reportErr) ==
    /\ dials' = Append(dials,
           [msg |-> DialedMsg(heap, msg, backendStartupMsg),
            addr |-> outgoingAddress,
            tlsConf |-> tlsConf,
            err |-> dialErr])
    /\ crdbConn' = IF dialErr = NilErr THEN Conn(outgoingAddress) ELSE NoConn
    /\ IF ReportsFailure(handler, dialErr)
       THEN /\ reports' = Append(reports,
                   [tenID |-> tenID, addr |-> outgoingAddress, err |-> reportErr])
            /\ err' = reportErr
            /\ calls' = calls \o << Call("BackendDial", dialErr),
                                    Call("ReportFailure", reportErr) >>
       ELSE /\ reports' = reports
            /\ err' = dialErr
            /\ calls' = Append(calls, Call("BackendDial", dialErr))
    /\ pc' = IF IsBackendDown(dialErr) THEN "retry.Next" ELSE "afterLoop"
    /\ UNCHANGED <<sent, ret, defers, listening, closed>>

\* a faulty variant of DialWith: the outgoing address has to split into host
\* and port in insecure mode too
DialAlwaysSplitting(split) ==
    IF ~split.ok
    THEN /\ SendErrToClient(ClusterNotFoundErr(clusterName, tenID))
         /\ Return(ClusterNotFoundErr(clusterName, tenID), calls, defers)
         /\ UNCHANGED <<err, crdbConn, dials, reports>>
    ELSE \E dialErr \in BackendDialResults, reportErr \in ReportFailureResults :
            AfterDial(TLSConfigFor(options, split.host), dialErr, reportErr)

\* lines 329-387, split being the outgoing address split into host and port
DialWith(split) ==
    IF ~options.Insecure /\ ~split.ok
    THEN /\ SendErrToClient(ClusterNotFoundErr(clusterName, tenID))
         /\ Return(ClusterNotFoundErr(clusterName, tenID), calls, defers)
         /\ UNCHANGED <<err, crdbConn, dials, reports>>
    ELSE \E dialErr \in BackendDialResults, reportErr \in ReportFailureResults :
            AfterDial(TLSConfigFor(options, split.host), dialErr, reportErr)

BackendDial ==
    /\ pc = "BackendDial"
    /\ DialWith(SplitHostPort(outgoingAddress))
    /\ UNCHANGED <<options, handler, throttleTags, throttleTime, loginChecks, attempts, armed, lastDraining, heap, msg, backendStartupMsg, remoteAddr,
                   clusterName, tenID, iter, outgoingAddress, errConnection,
                   denyFired, idleFired, relay, blocked, ctxCancelled, quiescing, loopCancelled,
                   firstErr, viaSlot>>

(***************************************************************************)
(* handle, lines 389-392: the check of err after the loop.                 *)
(***************************************************************************)
AfterLoop ==
    /\ pc = "afterLoop"
    /\ IF err # NilErr
       THEN /\ SendErrToClient(err)
            /\ Return(err, calls, defers)
       ELSE /\ pc' = "DetectIdle"
            /\ UNCHANGED <<sent, ret, defers, listening, closed, calls>>
    /\ UNCHANGED <<options, handler, throttleTags, throttleTime, loginChecks, attempts, armed, lastDraining, heap, msg, backendStartupMsg, remoteAddr,
                   clusterName, tenID, iter, err, outgoingAddress, crdbConn,
                   errConnection, denyFired, idleFired, relay, blocked,
                   ctxCancelled, quiescing, loopCancelled, dials, reports, firstErr, viaSlot>>

(***************************************************************************)
(* Writing to errConnection: select { case errConnection <- err: default: }*)
(***************************************************************************)
\* a faulty variant of SelectSend: a later error replaces the stored one
SelectSendOverwriting(ch, e) == [ch |-> << e >>, completed |-> TRUE]

\* a faulty variant of SelectSend: a plain send, which waits while the slot
\* is full
SelectSendBlocking(ch, e) ==
    IF Len(ch) < ErrConnectionCap
    THEN [ch |-> Append(ch, e), completed |-> TRUE]
    ELSE [ch |-> ch, completed |-> FALSE]

\* the channel after the select, and whether the writer got past it
SelectSend(ch, e) ==
    IF Len(ch) < ErrConnectionCap
    THEN [ch |-> Append(ch, e), completed |-> TRUE]
    ELSE [ch |-> ch, completed |-> TRUE]

\* a writer's select, r being its outcome
AfterSend(who, e, r) ==
    /\ errConnection' = r.ch
    /\ blocked' = IF r.completed THEN blocked ELSE blocked \cup {who}
    /\ firstErr' = IF firstErr = NoWrite THEN e ELSE firstErr

WriteErr(who, e) == AfterSend(who, e, SelectSend(errConnection, e))

(***************************************************************************)
(* handle, lines 394-405: the idle monitor's wrapper and the deferred      *)
(* close of the backend connection.  A nil crdbConn makes its first use    *)
(* panic; the deferred calls registered so far still run.                  *)
(***************************************************************************)
\* a faulty variant of WrapsConn: only a draining pod's connection is wrapped
WrapsConnOnlyDraining(h, addrArmed) == h.idleMonitor /\ addrArmed

\* handle passes the backend connection through DetectIdle iff the idle
\* monitor exists
WrapsConn(h, addrArmed) == h.idleMonitor

DetectIdle ==
    /\ pc = "DetectIdle"
    /\ IF WrapsConn(handler, crdbConn.addr \in armed)
       THEN IF crdbConn.nil
            THEN /\ Finish("panicked", NotReturned,
                           Append(calls, Call("DetectIdle", NilErr)), defers)
                 /\ UNCHANGED crdbConn
            ELSE /\ crdbConn' = [crdbConn EXCEPT !.wrapped = TRUE,
                                                 !.armedAtWrap = crdbConn.addr \in armed]
                 /\ calls' = Append(calls, Call("DetectIdle", NilErr))
                 /\ defers' = Append(defers, "crdbConn.Close")
                 /\ pc' = "authenticate"
                 /\ UNCHANGED <<ret, listening, closed>>
       ELSE /\ crdbConn' = [crdbConn EXCEPT !.armedAtWrap = crdbConn.addr \in armed]
            /\ defers' = Append(defers, "crdbConn.Close")
            /\ pc' = "authenticate"
            /\ UNCHANGED <<calls, ret, listening, closed>>
    /\ UNCHANGED <<options, handler, throttleTags, throttleTime, loginChecks, attempts, armed, lastDraining, heap, msg, backendStartupMsg, remoteAddr,
                   clusterName, tenID, iter, err, outgoingAddress, errConnection,
                   denyFired, idleFired, relay, blocked, ctxCancelled, quiescing, loopCancelled,
                   dials, reports, sent, firstErr, viaSlot>>

(***************************************************************************)
(* handle, lines 407-440: authenticate; on success the relay goroutine is  *)
(* started and cancel is deferred.                                         *)
(***************************************************************************)
\* what throttleService.ReportAttempt may return
ReportAttemptResults == {NilErr, Err("none", "Unknown", "throttled")}

\* a faulty variant of throttleHook: the report carries the zero time
throttleHookWithoutTime(tags, time, status, reportErr) ==
    [tags |-> tags, throttleTime |-> ZeroTime, status |-> status, err |-> reportErr,
     yields |-> IF reportErr # NilErr THEN throttledError ELSE NilErr]

\* lines 408-415: the callback handed to authenticate, called with status
\* when ReportAttempt returns reportErr: the report made and what the
\* callback yields
throttleHook(tags, time, status, reportErr) ==
    [tags |-> tags, throttleTime |-> time, status |-> status, err |-> reportErr,
     yields |-> IF reportErr # NilErr THEN throttledError ELSE NilErr]

\* how authenticate may go: the status it reports through the callback
\* ("none" when it fails before it has one) and the error it returns when
\* the callback yields nil
AuthenticateOutcomes ==
    { [status |-> "AttemptOK", err |-> NilErr],
      [status |-> "AttemptInvalidCredentials", err |-> AuthFailedErr],
      [status |-> "none", err |-> AuthFailedErr] }

\* what authenticate returns: the error the callback yielded, if any
AuthenticateReturns(outcome, hook) ==
    IF outcome.status # "none" /\ hook.yields # NilErr THEN hook.yields ELSE outcome.err

\* a faulty variant of RelayAfterAuth: the relay is started whatever
\* authenticate returned
RelayAlways(authErr) == "copying"

\* the relay goroutine after authenticate returned authErr
RelayAfterAuth(authErr) == IF authErr = NilErr THEN "copying" ELSE "none"

\* lines 407-440: authenticate has gone as outcome says, with the callback's
\* report hook if it made one, and has returned authErr
AfterAuthenticate(outcome, hook, authErr) ==
    /\ attempts' = IF outcome.status = "none" THEN attempts ELSE Append(attempts, hook)
    /\ relay' = RelayAfterAuth(authErr)
    /\ IF authErr # NilErr
       THEN Return(authErr, Append(calls, Call("authenticate", authErr)), defers)
       ELSE /\ calls' = calls \o << Call("authenticate", NilErr),
                                    Call("go ConnectionCopy", NilErr) >>
            /\ defers' = Append(defers, "cancel")
            /\ pc' = "select"
            /\ UNCHANGED <<ret, listening, closed>>

Authenticate ==
    /\ pc = "authenticate"
    /\ IF crdbConn.nil
       THEN /\ Finish("panicked", NotReturned,
                      Append(calls, Call("authenticate", NilErr)), defers)
            /\ UNCHANGED <<relay, attempts>>
       ELSE \E outcome \in AuthenticateOutcomes, reportErr \in ReportAttemptResults :
               /\ outcome.status = "none" => reportErr = NilErr
               /\ AfterAuthenticate(outcome,
                      throttleHook(throttleTags, throttleTime, outcome.status, reportErr),
                      AuthenticateReturns(outcome,
                          throttleHook(throttleTags, throttleTime, outcome.status, reportErr)))
    /\ UNCHANGED <<options, handler, throttleTags, throttleTime, loginChecks, armed, lastDraining, heap, msg, backendStartupMsg, remoteAddr,
                   clusterName, tenID, iter, err, outgoingAddress, crdbConn,
                   errConnection, denyFired, idleFired, blocked, ctxCancelled,
                   quiescing, loopCancelled, dials, reports, sent, firstErr, viaSlot>>

(***************************************************************************)
(* handle, lines 442-459: the final select.                                *)
(***************************************************************************)
\* a faulty variant of CtxDoneResult: a done context ends handle without error
CtxDoneResultNil == NilErr

\* the error handle returns when the context is done
CtxDoneResult == ExpiredCtxErr

\* the result handle returns when the stopper quiesces
QuiesceResult == NilErr

SelectErrConnection ==
    /\ pc = "select"
    /\ Len(errConnection) > 0
    /\ errConnection' = Tail(errConnection)
    /\ viaSlot' = TRUE
    /\ Return(Head(errConnection), calls, defers)
    /\ UNCHANGED <<options, handler, throttleTags, throttleTime, loginChecks, attempts, armed, lastDraining, heap, msg, backendStartupMsg, remoteAddr,
                   clusterName, tenID, iter, err, outgoingAddress, crdbConn,
                   denyFired, idleFired, relay, blocked, ctxCancelled, quiescing, loopCancelled,
                   dials, reports, sent, firstErr>>

SelectCtxDone ==
    /\ pc = "select"
    /\ ctxCancelled
    /\ Return(CtxDoneResult, calls, defers)
    /\ UNCHANGED <<options, handler, throttleTags, throttleTime, loginChecks, attempts, armed, lastDraining, heap, msg, backendStartupMsg, remoteAddr,
                   clusterName, tenID, iter, err, outgoingAddress, crdbConn,
                   errConnection, denyFired, idleFired, relay, blocked,
                   ctxCancelled, quiescing, loopCancelled, dials, reports, sent, firstErr, viaSlot>>

SelectQuiesce ==
    /\ pc = "select"
    /\ quiescing
    /\ Return(QuiesceResult, calls, defers)
    /\ UNCHANGED <<options, handler, throttleTags, throttleTime, loginChecks, attempts, armed, lastDraining, heap, msg, backendStartupMsg, remoteAddr,
                   clusterName, tenID, iter, err, outgoingAddress, crdbConn,
                   errConnection, denyFired, idleFired, relay, blocked,
                   ctxCancelled, quiescing, loopCancelled, dials, reports, sent, firstErr, viaSlot>>

(***************************************************************************)
(* The tasks that run beside handle.                                       *)
(***************************************************************************)
Terminated == pc \in {"returned", "panicked"}

\* the denylist watcher calls the callback of a registered listener, once
DenylistRevoke ==
    /\ listening
    /\ ~denyFired
    /\ denyFired' = TRUE
    /\ WriteErr("denylist", DenylistRevokedErr)
    /\ UNCHANGED <<options, handler, throttleTags, throttleTime, loginChecks, attempts, armed, lastDraining, pc, heap, msg, backendStartupMsg,
                   remoteAddr, clusterName, tenID, iter, err, outgoingAddress,
                   crdbConn, listening, idleFired, relay, ctxCancelled, quiescing, loopCancelled,
                   defers, closed, ret, calls, dials, reports, sent, viaSlot>>

\* the idle monitor calls onIdle of a wrapper, once, while the wrapper's
\* address has idle checks set and the connection is open
IdleTimeout ==
    /\ crdbConn.wrapped
    /\ crdbConn.addr \in armed
    /\ "crdbConn" \notin closed
    /\ ~idleFired
    /\ idleFired' = TRUE
    /\ WriteErr("idle", IdleDisconnectErr)
    /\ UNCHANGED <<options, handler, throttleTags, throttleTime, loginChecks, attempts, armed, lastDraining, pc, heap, msg, backendStartupMsg,
                   remoteAddr, clusterName, tenID, iter, err, outgoingAddress,
                   crdbConn, listening, denyFired, relay, ctxCancelled, quiescing, loopCancelled,
                   defers, closed, ret, calls, dials, reports, sent, viaSlot>>

\* lines 434-440: ConnectionCopy returns in the relay goroutine ...
ConnectionCopyReturns ==
    /\ relay = "copying"
    /\ relay' = "sending"
    /\ UNCHANGED <<options, handler, throttleTags, throttleTime, loginChecks, attempts, armed, lastDraining, pc, heap, msg, backendStartupMsg,
                   remoteAddr, clusterName, tenID, iter, err, outgoingAddress,
                   crdbConn, errConnection, listening, denyFired, idleFired,
                   blocked, ctxCancelled, quiescing, loopCancelled, defers, closed, ret, calls,
                   dials, reports, sent, firstErr, viaSlot>>

\* ... and the goroutine reports its error and ends
RelaySend ==
    /\ relay = "sending"
    /\ WriteErr("relay", RelayErr)
    /\ relay' = IF "relay" \in blocked' THEN "sending" ELSE "done"
    /\ UNCHANGED <<options, handler, throttleTags, throttleTime, loginChecks, attempts, armed, lastDraining, pc, heap, msg, backendStartupMsg,
                   remoteAddr, clusterName, tenID, iter, err, outgoingAddress,
                   crdbConn, listening, denyFired, idleFired, ctxCancelled,
                   quiescing, loopCancelled, defers, closed, ret, calls, dials, reports, sent,
                   viaSlot>>

\* handle looks at the context from the retry loop on
WatchesCtx == pc \in {"retry.Next", "outgoingAddress", "BackendDial", "afterLoop",
                      "DetectIdle", "authenticate", "select"}

\* the connection's context is cancelled (the client went away); a
\* cancellation before the retry loop is seen as one on entering it
CtxCancel ==
    /\ WatchesCtx
    /\ ~ctxCancelled
    /\ ctxCancelled' = TRUE
    /\ UNCHANGED <<options, handler, throttleTags, throttleTime, loginChecks, attempts, armed, lastDraining, pc, heap, msg, backendStartupMsg,
                   remoteAddr, clusterName, tenID, iter, err, outgoingAddress,
                   crdbConn, errConnection, listening, denyFired, idleFired, relay,
                   blocked, quiescing, loopCancelled, defers, closed, ret, calls, dials, reports,
                   sent, firstErr, viaSlot>>

\* the stopper starts to quiesce; handle looks at it in the final select
\* only, where an earlier quiesce is seen on entering
Quiesce ==
    /\ pc = "select"
    /\ ~quiescing
    /\ quiescing' = TRUE
    /\ UNCHANGED <<options, handler, throttleTags, throttleTime, loginChecks, attempts, armed, lastDraining, pc, heap, msg, backendStartupMsg,
                   remoteAddr, clusterName, tenID, iter, err, outgoingAddress,
                   crdbConn, errConnection, listening, denyFired, idleFired, relay,
                   blocked, ctxCancelled, loopCancelled, defers, closed, ret, calls, dials,
                   reports, sent, firstErr, viaSlot>>

(***************************************************************************)
(* startPodWatcher, lines 467-481: one pod event.                          *)
(***************************************************************************)
PodStates == {"RUNNING", "DRAINING", "DELETING"}

\* idle.Monitor.SetIdleChecks / ClearIdleChecks on the armed set
SetIdleChecks(set, addr) == set \cup {addr}

ClearIdleChecks(set, addr) == set \ {addr}

\* a faulty variant of ArmedAfterPodEvent: only a DELETING pod is disarmed
ArmedUntilDeleted(set, addr, state) ==
    IF state = "DRAINING" THEN SetIdleChecks(set, addr)
    ELSE IF state = "DELETING" THEN ClearIdleChecks(set, addr)
    ELSE set

\* the armed set after the watcher has processed the event
ArmedAfterPodEvent(set, addr, state) ==
    IF state = "DRAINING" THEN SetIdleChecks(set, addr) ELSE ClearIdleChecks(set, addr)

\* the armed set is looked at from DetectIdle on: events before that are
\* seen as events on reaching it
PodEvent ==
    /\ handler.idleMonitor
    /\ pc \in {"DetectIdle", "authenticate", "select"}
    /\ \E addr \in PodAddrs, state \in PodStates :
          /\ armed' = ArmedAfterPodEvent(armed, addr, state)
          /\ lastDraining' = IF state = "DRAINING" THEN lastDraining \cup {addr}
                             ELSE lastDraining \ {addr}
    /\ UNCHANGED <<options, handler, throttleTags, throttleTime, loginChecks, attempts, pc, heap, msg, backendStartupMsg, remoteAddr,
                   clusterName, tenID, iter, err, outgoingAddress, crdbConn,
                   errConnection, listening, denyFired, idleFired, relay, blocked,
                   ctxCancelled, quiescing, loopCancelled, defers, closed, ret, calls, dials,
                   reports, sent, firstErr, viaSlot>>

Next ==
    \/ FrontendAdmit
    \/ ParseParams
    \/ ListenForDenied
    \/ LoginCheck
    \/ RetryNext
    \/ ResolveAddress
    \/ BackendDial
    \/ AfterLoop
    \/ DetectIdle
    \/ Authenticate
    \/ SelectErrConnection
    \/ SelectCtxDone
    \/ SelectQuiesce
    \/ DenylistRevoke
    \/ IdleTimeout
    \/ ConnectionCopyReturns
    \/ RelaySend
    \/ CtxCancel
    \/ Quiesce
    \/ PodEvent

Spec == Init /\ [][Next]_vars

(***************************************************************************)
(* Properties of handle.                                                   *)
(***************************************************************************)
\* the indices of the calls to op in the call history
CallsTo(op) == {k \in 1..Len(calls) : calls[k].op = op}

\* the calls made after the k-th one
CallsAfter(k) == {calls[m].op : m \in (k + 1)..Len(calls)}

\* C1: every BackendDial comes after a LoginCheck that returned nil, every
\* LoginCheck after a ListenForDenied that returned nil, and once either of
\* the two has returned an error no BackendDial is made at all.
C1_GuardsBeforeDial ==
    /\ \A k \in CallsTo("BackendDial") :
          \E j \in 1..(k - 1) : calls[j] = Call("LoginCheck", NilErr)
    /\ \A k \in CallsTo("LoginCheck") :
          \E i \in 1..(k - 1) : calls[i] = Call("ListenForDenied", NilErr)
    /\ \A k \in CallsTo("ListenForDenied") \cup CallsTo("LoginCheck") :
          calls[k].err # NilErr => "BackendDial" \notin CallsAfter(k)

\* a backend has been dialed
C1_Witness == CallsTo("BackendDial") # {}

\* C2: once EnsureTenantAddr has answered NotFound, handle neither resolves
\* the routing rule nor dials, authenticates or relays, and it returns the
\* codeParamsRoutingFailed "cluster <name>-<id> not found" error after
\* sending it to the client.
C2_NotFoundIsTerminal ==
    \A k \in CallsTo("EnsureTenantAddr") :
        calls[k].err.grpc = "NotFound" =>
           /\ CallsAfter(k) \cap {"resolveTCPAddr", "BackendDial", "DetectIdle",
                                  "authenticate", "go ConnectionCopy"} = {}
           /\ pc = "returned" =>
                 /\ ret = ClusterNotFoundErr(clusterName, tenID)
                 /\ sent = << ret >>

\* the dials that ended in codeBackendDown
DownDials == {i \in 1..Len(dials) : IsBackendDown(dials[i].err)}

\* C3: with a directory, ReportFailure is called once for each dial that
\* ended in codeBackendDown, in order, with the tenant and the address of
\* that dial, and for no other dial; a dial that succeeds is the last one,
\* is preceded by codeBackendDown dials only, and leaves the client without
\* an error.  Without a directory nothing is reported.
C3_ReportsFollowBackendDown ==
    /\ ~handler.directory => reports = << >>
    /\ handler.directory =>
          /\ Len(reports) = Cardinality(DownDials)
          /\ \A i \in 1..Len(reports) :
                /\ i \in DownDials
                /\ reports[i].tenID = tenID
                /\ reports[i].addr = dials[i].addr
    /\ \A i \in 1..Len(dials) :
          dials[i].err = NilErr =>
             /\ i = Len(dials)
             /\ DownDials = 1..(i - 1)
             /\ sent = << >>
             /\ handler.directory => Len(reports) = i - 1

\* a dial has succeeded after one that ended in codeBackendDown and was
\* reported to the directory
C3_Witness ==
    /\ handler.directory
    /\ Len(dials) = 2
    /\ IsBackendDown(dials[1].err)
    /\ dials[2].err = NilErr
    /\ Len(reports) = 1

\* C4: errConnection holds at most one error; until handle reads it, it
\* holds the first error written, whatever was written later; and when
\* handle returns by reading it, it returns that first error.
C4_FirstErrorWins ==
    /\ Len(errConnection) <= ErrConnectionCap
    /\ (firstErr # NoWrite /\ ~viaSlot) => errConnection = << firstErr >>
    /\ viaSlot => ret = firstErr

\* the revocation callback, the idle callback and the relay have all written
\* before handle read the slot
C4_Witness ==
    /\ viaSlot
    /\ denyFired
    /\ idleFired
    /\ relay = "done"
    /\ errConnection = << >>

\* C5: no writer of errConnection ever waits for the slot, and the relay
\* goroutine, once ConnectionCopy has returned, can always take its last step.
C5_WritersNeverBlock ==
    /\ blocked = {}
    /\ relay = "sending" => ENABLED RelaySend

\* the relay goroutine has ended after handle returned without reading the
\* slot, which another writer had filled
C5_Witness ==
    /\ pc = "returned"
    /\ ~viaSlot
    /\ relay = "done"
    /\ firstErr = DenylistRevokedErr
    /\ errConnection = << firstErr >>

\* C6: once the relay goroutine has been started, handle returns only by
\* reading errConnection (with the error read), on a done context (with the
\* codeExpiredClientConnection error), or on quiesce (with nil); it does not
\* panic there.
C6_FinalWaitOutcomes ==
    (Terminated /\ relay # "none") =>
       /\ pc = "returned"
       /\ \/ viaSlot /\ ret = firstErr
          \/ /\ ~viaSlot
             /\ ctxCancelled
             /\ ret = ExpiredCtxErr
             /\ ret.code = "codeExpiredClientConnection"
          \/ ~viaSlot /\ quiescing /\ ret = NilErr

\* handle has left the final wait on a done context, with nothing in the
\* slot and no quiesce
C6_Witness ==
    /\ pc = "returned"
    /\ relay # "none"
    /\ ctxCancelled
    /\ ~quiescing
    /\ firstErr = NoWrite
    /\ ret = ExpiredCtxErr

\* C7 as stated: when the revocation callback has written the first error
\* of the connection, handle ends by returning a codeExpiredClientConnection
\* error.
C7_RevocationEndsHandle ==
    (Terminated /\ firstErr = DenylistRevokedErr) =>
       /\ pc = "returned"
       /\ ret.code = "codeExpiredClientConnection"

\* C7, amended: when the revocation callback has written the first error of
\* the connection, that codeExpiredClientConnection error stays in the slot
\* until handle reads it; handle in its final wait can return by reading it;
\* and a handle that returns by reading the slot returns it.
C7_RevocationKeptInSlot ==
    firstErr = DenylistRevokedErr =>
       /\ ~viaSlot =>
             /\ errConnection = << firstErr >>
             /\ errConnection[1].code = "codeExpiredClientConnection"
       /\ pc = "select" => ENABLED SelectErrConnection
       /\ viaSlot =>
             /\ ret.code = "codeExpiredClientConnection"
             /\ ret.msg = "connection added to deny list: %v"

\* handle has returned the revocation error read from the slot
C7_Witness ==
    /\ pc = "returned"
    /\ viaSlot
    /\ denyFired
    /\ firstErr = DenylistRevokedErr
    /\ ret = firstErr

\* C8: when r.Next() has returned false because the context is done, handle
\* neither authenticates nor relays and returns a codeExpiredClientConnection
\* error.
C8_CancelledLoopExpires ==
    loopCancelled =>
       /\ pc # "panicked"
       /\ CallsTo("authenticate") = {}
       /\ relay = "none"
       /\ pc = "returned" => ret.code = "codeExpiredClientConnection"

\* C9: the message given to BackendDial is never the client's own message
\* object: it is the one clusterNameAndTenantFromParams returned, holding the
\* rewritten parameters and crdb:remote_addr; the client's message has no
\* crdb:remote_addr, and a parameter of it that named the cluster is changed
\* or dropped in the message dialed.
C9_DialsRewrittenMsg ==
    dials # << >> =>
       \A r \in {ParseResult} : \A i \in 1..Len(dials) :
          /\ dials[i].msg.obj # msg
          /\ dials[i].msg.obj = r.msg.obj
          /\ dials[i].msg.Parameters =
                SetParam(r.msg.Parameters, "crdb:remote_addr", remoteAddr)
          /\ "crdb:remote_addr" \notin DOMAIN heap[msg]
          /\ \E key \in {"database", "options"} \cap DOMAIN heap[msg] :
                \/ key \notin DOMAIN dials[i].msg.Parameters
                \/ dials[i].msg.Parameters[key] # heap[msg][key]

\* a backend has been dialed for a client whose options held the cluster
C9_Witness ==
    /\ Len(dials) > 0
    /\ "options" \in DOMAIN heap[msg]
    /\ "options" \in DOMAIN dials[1].msg.Parameters

\* C10 as stated: the backend connection is wrapped by DetectIdle exactly
\* when its address has idle checks set at that moment.
C10_WrappedIffDraining ==
    (pc \in {"authenticate", "select"} /\ ~crdbConn.nil) =>
       (crdbConn.wrapped <=> crdbConn.armedAtWrap)

\* C10, amended: the backend connection is wrapped by DetectIdle exactly
\* when the idle monitor exists, that is when DirectoryAddr is set and
\* DrainTimeout is not 0, whether or not its address has idle checks set.
C10_WrappedIffIdleMonitor ==
    (pc \in {"authenticate", "select"} /\ ~crdbConn.nil) =>
       (crdbConn.wrapped <=> (options.DirectoryAddr # "" /\ options.DrainTimeout # 0))

\* a connection has been wrapped whose address had no idle checks set
C10_Witness ==
    /\ pc = "authenticate"
    /\ crdbConn.wrapped
    /\ ~crdbConn.armedAtWrap

\* C11: after any sequence of pod events the addresses with idle checks set
\* are exactly those whose most recent event had state DRAINING.
C11_ArmedIffLastDraining == armed = lastDraining

\* pod events have left exactly one of the addresses armed
C11_Witness ==
    /\ Cardinality(armed) = 1
    /\ Cardinality(lastDraining) = 1
    /\ pc = "select"

\* the calls that only release what handle holds
ReleaseCalls == {"conn.Close", "crdbConn.Close", "removeListener", "cancel"}

\* C12: the relay goroutine is started at most once and right after an
\* authenticate that returned nil; an authenticate that returned an error
\* makes handle return that error without starting the relay; and once the
\* relay is started handle calls nothing but its deferred releases and sends
\* nothing to the client.
C12_RelayOnceAfterAuth ==
    /\ Cardinality(CallsTo("go ConnectionCopy")) <= 1
    /\ (relay # "none") <=> (CallsTo("go ConnectionCopy") # {})
    /\ \A k \in CallsTo("go ConnectionCopy") :
          /\ k > 1
          /\ calls[k - 1] = Call("authenticate", NilErr)
          /\ CallsAfter(k) \subseteq ReleaseCalls
          /\ sent = << >>
    /\ \A k \in CallsTo("authenticate") :
          calls[k].err # NilErr =>
             /\ pc = "returned"
             /\ ret = calls[k].err
             /\ relay = "none"
             /\ CallsTo("go ConnectionCopy") = {}

\* authenticate has failed and handle has returned its error
C12_Witness ==
    /\ pc = "returned"
    /\ ret = AuthFailedErr
    /\ Call("authenticate", AuthFailedErr) \in {calls[k] : k \in 1..Len(calls)}

\* the calls that failed in a way handle takes as transient
TransientCalls ==
    {k \in 1..Len(calls) :
        \/ /\ calls[k].op = "EnsureTenantAddr"
           /\ calls[k].err # NilErr
           /\ calls[k].err.grpc # "NotFound"
        \/ calls[k].op = "BackendDial" /\ IsBackendDown(calls[k].err)}

\* C13: as long as r.Next() has not returned false, a transient failure (a
\* directory error other than NotFound, a codeBackendDown dial) leaves handle
\* in the loop with nothing sent and nothing returned, or has been followed
\* by another resolution; and an error sent to the client from the loop is
\* the cluster-not-found error, after a NotFound or an outgoing address that
\* does not split, or the error of a dial that is not codeBackendDown.
C13_TransientFailuresRetry ==
    ~loopCancelled =>
       /\ \A k \in TransientCalls :
             \/ /\ pc \in {"retry.Next", "outgoingAddress"}
                /\ sent = << >>
                /\ ret = NotReturned
             \/ CallsAfter(k) \cap {"EnsureTenantAddr", "resolveTCPAddr"} # {}
       /\ (sent # << >> /\ CallsTo("LoginCheck") # {} /\ CallsTo("authenticate") = {}) =>
             \/ sent = << throttledError >> /\ dials = << >>
             \/ /\ sent = << ClusterNotFoundErr(clusterName, tenID) >>
                /\ \/ \E k \in CallsTo("resolveTCPAddr") : calls[k].err # NilErr
                   \/ ~options.Insecure /\ ~SplitHostPort(outgoingAddress).ok
             \/ /\ dials # << >>
                /\ sent = << dials[Len(dials)].err >>
                /\ sent[1] # NilErr
                /\ ~IsBackendDown(sent[1])

\* a resolution has followed a transient directory error and a
\* codeBackendDown dial is waiting for the next iteration
C13_Witness ==
    /\ ~ctxCancelled
    /\ pc = "retry.Next"
    /\ Cardinality(TransientCalls) = 2
    /\ \E k \in TransientCalls : calls[k].op = "EnsureTenantAddr"
    /\ \E k \in TransientCalls : calls[k].op = "BackendDial"

\* the call in which the directory first returned an address, when only
\* transient directory errors came before it
FirstResolutions ==
    {k \in CallsTo("EnsureTenantAddr") :
        /\ calls[k].err = NilErr
        /\ \A j \in 1..(k - 1) :
              /\ calls[j].op \notin {"BackendDial", "resolveTCPAddr"}
              /\ calls[j].op = "EnsureTenantAddr" => calls[j].err # NilErr}

\* handle is about to dial, or has dialed as its next call, the address
\* returned in the k-th call, with nothing sent to the client before the dial
DialsResolved(k) ==
    \/ /\ k = Len(calls)
       /\ pc = "BackendDial"
       /\ outgoingAddress = calls[k].addr
       /\ sent = << >>
    \/ /\ k < Len(calls)
       /\ calls[k + 1].op = "BackendDial"
       /\ dials[1].addr = calls[k].addr

\* C14 as stated: when the directory returns an address after any number of
\* transient errors, the next thing handle does is to dial that address,
\* having sent no error to the client.
C14_ResolvedIsDialed == \A k \in FirstResolutions : DialsResolved(k)

\* C14, amended: the same, for an address that splits into host and port or
\* a proxy in insecure mode.
C14_SplittableResolvedIsDialed ==
    \A k \in FirstResolutions :
        (options.Insecure \/ SplitHostPort(calls[k].addr).ok) => DialsResolved(k)

\* the directory has failed once with a transient error, then returned an
\* address, and that address has been dialed
C14_Witness ==
    /\ handler.directory
    /\ \E k \in FirstResolutions :
          /\ k > 1
          /\ calls[k - 1] = Call("EnsureTenantAddr", DirectoryUnavailableErr)
          /\ k < Len(calls)
    /\ Len(dials) = 1
    /\ sent = << >>

\* C15: when ListenForDenied returns an error handle has called nothing but
\* FrontendAdmit and the parser before, sends the codeProxyRefusedConnection
\* error to the client, returns it, and calls nothing after but the deferred
\* close of the client connection.
C15_InitialMatchRefused ==
    \A k \in CallsTo("ListenForDenied") :
        calls[k].err # NilErr =>
           /\ pc = "returned"
           /\ ret = ConnectionRefusedErr
           /\ ret.code = "codeProxyRefusedConnection"
           /\ sent = << ret >>
           /\ {calls[j].op : j \in 1..(k - 1)} =
                 {"FrontendAdmit", "clusterNameAndTenantFromParams"}
           /\ CallsAfter(k) = {"conn.Close"}
           /\ dials = << >>
           /\ relay = "none"

\* the connection has been refused on an initial denylist match
C15_Witness ==
    /\ pc = "returned"
    /\ \E k \in CallsTo("ListenForDenied") : calls[k].err # NilErr
    /\ sent = << ConnectionRefusedErr >>

\* C16: when LoginCheck returns an error handle sends the throttled error
\* (codeProxyRefusedConnection, "connection attempt throttled", with its
\* hint) to the client, returns it, and calls nothing after but the removal
\* of the denylist listener and the close of the client connection.
C16_ThrottledRefused ==
    \A k \in CallsTo("LoginCheck") :
        calls[k].err # NilErr =>
           /\ pc = "returned"
           /\ ret.code = "codeProxyRefusedConnection"
           /\ ret.msg = "connection attempt throttled"
           /\ ret.hint = throttledErrorHint
           /\ sent = << ret >>
           /\ k + 2 = Len(calls)
           /\ calls[k + 1].op = "removeListener"
           /\ calls[k + 2].op = "conn.Close"
           /\ ~listening
           /\ dials = << >>
           /\ relay = "none"

\* the throttler has refused a connection whose listener had been registered
C16_Witness ==
    /\ pc = "returned"
    /\ \E k \in CallsTo("LoginCheck") : calls[k].err # NilErr
    /\ Call("ListenForDenied", NilErr) \in {calls[j] : j \in 1..Len(calls)}
    /\ sent = << throttledError >>

\* C17: when clusterNameAndTenantFromParams fails handle sends a
\* codeParamsRoutingFailed error with the parser's message to the client,
\* returns it, and calls nothing after but the deferred close of the client
\* connection.
C17_ParseFailureRefused ==
    \A k \in CallsTo("clusterNameAndTenantFromParams") :
        calls[k].err # NilErr =>
           /\ pc = "returned"
           /\ ret.code = "codeParamsRoutingFailed"
           /\ ret.msg # NoErr
           /\ ret.msg = ParseResult.err
           /\ sent = << ret >>
           /\ CallsAfter(k) = {"conn.Close"}
           /\ ~listening
           /\ dials = << >>
           /\ relay = "none"

\* a startup message naming two different clusters has been refused
C17_Witness ==
    /\ pc = "returned"
    /\ ret.code = "codeParamsRoutingFailed"
    /\ ret.msg = "multiple different cluster identifiers provided"
    /\ CallsTo("ListenForDenied") = {}

\* the errors a directory RPC returns as they are
DirectoryRPCErrors == {DirectoryUnavailableErr, DirectoryNotFoundErr, ReportFailureErr}

\* C18: every error handle sends to the client, and every error it returns,
\* is a coded error of the proxy and never the error a directory RPC returned.
C18_OnlyCodedErrors ==
    /\ \A i \in 1..Len(sent) :
          /\ sent[i].code # "none"
          /\ sent[i] \notin DirectoryRPCErrors
    /\ (pc = "returned" /\ ret # NilErr) =>
          /\ ret.code # "none"
          /\ ret \notin DirectoryRPCErrors

(***************************************************************************)
(* The parser on its own: handle's step from the startup message to the    *)
(* message for the backend, lines 224-247, on a wider set of messages.     *)
(***************************************************************************)
\* cluster names, valid and invalid, with and without separators of their own
ClusterNames ==
    { <<"f", "o", "o", "b", "a", "r">>,
      <<"f", "o", "o", "b", "a", "r", "-", "7">>,
      <<"h", "a", "p", "p", "y", "-", "k", "o", "a", "l", "a">>,
      <<"f", "o", "o", "-", "7">>,
      <<"-", "f", "o", "o", "b", "a", "r">>,
      <<"a", "-", "b", "-", "c", "-", "d">>,
      <<"a", "b", "c", "d", "e", "f", "g", "h", "i", "j", "0", "1", "2", "3", "4", "5", "6", "7", "8", "9">>,
      <<"a", "b", "c", "d", "e", "f", "g", "h", "i", "j", "0", "1", "2", "3", "4", "5", "6", "7", "8", "9", "x">>,
      <<"f", "o", "o", "B", "a", "r">>,
      <<"f", "o", "o", "_", "b", "a", "r">> }

\* what may follow the last separator of an identifier
TenantStrings ==
    { <<"2">>,
      <<"1", "0">>,
      <<"0", "0", "7">>,
      <<"1">>,
      <<"0">>,
      <<"1", "8", "4", "4", "6", "7", "4", "4", "0", "7", "3", "7", "0", "9", "5", "5", "1", "6", "1", "5">>,
      <<"1", "8", "4", "4", "6", "7", "4", "4", "0", "7", "3", "7", "0", "9", "5", "5", "1", "6", "1", "6">>,
      <<"x", "1">>,
      <<>> }

\* the startup messages that carry the identifier name-ten: in the database,
\* in a long option, and in a -c option beside another option and a
\* crdb:remote_addr of the client's own
IdentifierMessages(name, ten) ==
    { [database |-> name \o clusterTenantSep \o ten \o <<".", "d", "e", "f", "a", "u", "l", "t", "d", "b">>,
       user |-> <<"b", "o", "b">>],
      [database |-> <<"d", "e", "f", "a", "u", "l", "t", "d", "b">>,
       options |-> <<"-", "-", "c", "l", "u", "s", "t", "e", "r", "=">> \o name \o clusterTenantSep \o ten,
       user |-> <<"b", "o", "b">>, application_name |-> <<"p", "s", "q", "l">>],
      SetParam([options |-> <<"-", "c", " ", "c", "l", "u", "s", "t", "e", "r", "=">> \o name \o clusterTenantSep \o ten \o <<" ", "-", "c", " ", "x", "=", "y">>,
                user |-> <<"b", "o", "b">>],
               "crdb:remote_addr", <<"6", ".", "6", ".", "6", ".", "6", ":", "1">>) }

\* startup messages that carry the identifier foobar-7 more than once: in
\* the database and in a flag, and in a flag that splits another flag in two
RepeatedIdentifierMessages ==
    { [database |-> <<"f", "o", "o", "b", "a", "r", "-", "7", ".", "d", "e", "f", "a", "u", "l", "t", "d", "b">>, options |-> <<"-", "-", "c", "l", "u", "s", "t", "e", "r", "=", "f", "o", "o", "b", "a", "r", "-", "7">>,
       user |-> <<"b", "o", "b">>],
      [database |-> <<"f", "o", "o", "b", "a", "r", "-", "7", ".", "d", "e", "f", "a", "u", "l", "t", "d", "b">>, options |-> <<"-", "c", " ", "x", "=", "y", " ", "-", "c", "c", "l", "u", "s", "t", "e", "r", "=", "f", "o", "o", "b", "a", "r", "-", "7">>],
      [database |-> <<"d", "e", "f", "a", "u", "l", "t", "d", "b">>, options |-> <<"-", "c", "-", "-", "c", "l", "u", "s", "t", "e", "r", "=", "f", "o", "o", "b", "a", "r", "-", "7", " ", "c", "l", "u", "s", "t", "e", "r", "=", "f", "o", "o", "b", "a", "r", "-", "7">>,
       user |-> <<"b", "o", "b">>],
      [options |-> <<"-", "c", "-", "-", "c", "l", "u", "s", "t", "e", "r", "=", "f", "o", "o", "b", "a", "r", "-", "7", " ", "c", "l", "u", "s", "t", "e", "r", "=", "h", "a", "p", "p", "y", "-", "k", "o", "a", "l", "a", "-", "3">>, user |-> <<"b", "o", "b">>] }

\* startup messages without any cluster identifier, and with two different ones
IdentifierSourceMessages ==
    { [user |-> <<"b", "o", "b">>],
      [database |-> <<"d", "e", "f", "a", "u", "l", "t", "d", "b">>, options |-> <<"-", "c", " ", "x", "=", "y">>, user |-> <<"b", "o", "b">>],
      [database |-> <<"f", "o", "o", "b", "a", "r", "-", "7", ".", "d", "e", "f", "a", "u", "l", "t", "d", "b">>, options |-> <<"-", "-", "c", "l", "u", "s", "t", "e", "r", "=", "f", "o", "o", "b", "a", "r", "-", "8">>],
      [database |-> <<"h", "a", "p", "p", "y", "-", "k", "o", "a", "l", "a", "-", "3", ".", "d", "b">>, options |-> <<"-", "c", " ", "x", "=", "y", " ", "-", "c", " ", "c", "l", "u", "s", "t", "e", "r", "=", "f", "o", "o", "b", "a", "r", "-", "7">>,
       user |-> <<"b", "o", "b">>] }

\* the three ways to write the cluster flag with the value id
ClusterFlags(id) ==
    { <<"-", "c", " ", "c", "l", "u", "s", "t", "e", "r", "=">> \o id, <<"-", "c", "c", "l", "u", "s", "t", "e", "r", "=">> \o id, <<"-", "-", "c", "l", "u", "s", "t", "e", "r", "=">> \o id }

\* the identifiers the flags of the messages below carry
FlagIdentifiers == { <<"f", "o", "o", "b", "a", "r", "-", "7">>, <<"h", "a", "p", "p", "y", "-", "k", "o", "a", "l", "a", "-", "3">> }

\* startup messages whose options hold two cluster flags, or three, with the
\* same identifier or different ones, with a database that names the cluster
\* or not; and messages whose only cluster flag has no value
ClusterFlagMessages ==
    { [database |-> db, options |-> first \o <<" ">> \o second \o rest, user |-> <<"b", "o", "b">>] :
        db \in { <<"d", "e", "f", "a", "u", "l", "t", "d", "b">>, <<"f", "o", "o", "b", "a", "r", "-", "7", ".", "d", "e", "f", "a", "u", "l", "t", "d", "b">> },
        first \in UNION {ClusterFlags(id) : id \in FlagIdentifiers},
        second \in UNION {ClusterFlags(id) : id \in FlagIdentifiers \cup {EmptyStr}},
        rest \in { EmptyStr, <<" ", "-", "c", " ", "x", "=", "y">>, <<" ", "-", "-", "c", "l", "u", "s", "t", "e", "r", "=", "f", "o", "o", "b", "a", "r", "-", "7">> } }
    \cup { [database |-> db, options |-> before \o flag \o rest, user |-> <<"b", "o", "b">>] :
             db \in { <<"d", "e", "f", "a", "u", "l", "t", "d", "b">>, <<"f", "o", "o", "b", "a", "r", "-", "7", ".", "d", "e", "f", "a", "u", "l", "t", "d", "b">> },
             before \in { EmptyStr, <<"-", "c", " ", "x", "=", "y", " ">> },
             flag \in ClusterFlags(EmptyStr),
             rest \in { EmptyStr, <<" ", "-", "c", " ", "x", "=", "y">> } }

\* database parameters of every shape: empty, without a dot, with one dot and
\* text on both sides, with an empty side, with two dots
DatabaseShapes ==
    { EmptyStr, <<"d", "e", "f", "a", "u", "l", "t", "d", "b">>, <<"f", "o", "o", "b", "a", "r", "-", "7", ".", "d", "e", "f", "a", "u", "l", "t", "d", "b">>, <<".">>, <<".", "d", "e", "f", "a", "u", "l", "t", "d", "b">>,
      <<"f", "o", "o", "b", "a", "r", "-", "7", ".">>, <<"f", "o", "o", "b", "a", "r", "-", "7", ".", "d", "e", "f", "a", "u", "l", "t", "d", "b", ".">>, <<"f", "o", "o", "b", "a", "r", "-", "7", ".", ".", "d", "e", "f", "a", "u", "l", "t", "d", "b">>,
      <<"f", "o", "o", "b", "a", "r", "-", "7", ".", "p", "u", "b", "l", "i", "c", ".", "d", "e", "f", "a", "u", "l", "t", "d", "b">> }

\* startup messages with these databases, without options and with a cluster
\* flag in the options
DatabaseShapeMessages ==
    { [database |-> d, user |-> <<"b", "o", "b">>] : d \in DatabaseShapes }
    \cup { [database |-> d, options |-> <<"-", "-", "c", "l", "u", "s", "t", "e", "r", "=", "f", "o", "o", "b", "a", "r", "-", "7">>] : d \in DatabaseShapes }

ParserParameters ==
    UNION {IdentifierMessages(name, ten) : name \in ClusterNames, ten \in TenantStrings}
    \cup RepeatedIdentifierMessages
    \cup IdentifierSourceMessages
    \cup ClusterFlagMessages
    \cup DatabaseShapeMessages

\* handle after FrontendAdmit has returned one of these messages
ParserInit ==
    /\ options \in ProxyOptionsSet
    /\ handler = newProxyHandler(options)
    /\ armed = {}
    /\ lastDraining = {}
    /\ pc = "clusterNameAndTenantFromParams"
    /\ \E p \in ParserParameters : heap = ("msg" :> p)
    /\ msg = "msg"
    /\ backendStartupMsg = "nil"
    /\ remoteAddr \in RemoteAddrs
    /\ clusterName = EmptyStr
    /\ tenID = <<"0">>
    /\ iter = 0
    /\ err = NilErr
    /\ outgoingAddress = EmptyStr
    /\ crdbConn = NoConn
    /\ errConnection = << >>
    /\ listening = FALSE
    /\ denyFired = FALSE
    /\ idleFired = FALSE
    /\ relay = "none"
    /\ blocked = {}
    /\ ctxCancelled = FALSE
    /\ quiescing = FALSE
    /\ loopCancelled = FALSE
    /\ throttleTags = NoTags
    /\ throttleTime = ZeroTime
    /\ loginChecks = << >>
    /\ attempts = << >>
    /\ defers = <<"conn.Close">>
    /\ closed = {}
    /\ ret = NotReturned
    /\ calls = << Call("FrontendAdmit", NilErr) >>
    /\ dials = << >>
    /\ reports = << >>
    /\ sent = << >>
    /\ firstErr = NoWrite
    /\ viaSlot = FALSE

ParserSpec == ParserInit /\ [][ParseParams]_vars

\* a decimal number that is at least 2
DecimalAtLeastTwo(ten) ==
    /\ Len(ten) > 0
    /\ \A i \in 1..Len(ten) : ten[i] \in Digits
    /\ Canonical(ten) \notin {<<"0">>, <<"1">>}

\* the parser has accepted the message and returned name as the cluster name
\* and the number ten as the tenant id
ParsedAs(name, ten) ==
    /\ Call("clusterNameAndTenantFromParams", NilErr) \in {calls[k] : k \in 1..Len(calls)}
    /\ backendStartupMsg = "outMsg"
    /\ clusterName = name
    /\ tenID = Canonical(ten)

\* C19 as stated: an identifier made of a valid cluster name, the separator
\* and a decimal number that is at least 2 is accepted, with everything
\* before the last separator as the cluster name and the number as the
\* tenant id.
C19_SplitAtLastDash ==
    \A name \in ClusterNames, ten \in TenantStrings :
        (/\ pc # "clusterNameAndTenantFromParams"
         /\ heap[msg] \in IdentifierMessages(name, ten)
         /\ ClusterNameRegexMatch(name)
         /\ DecimalAtLeastTwo(ten)) => ParsedAs(name, ten)

\* C19, amended: the same, for a number that fits in 64 bits.
C19_SplitAtLastDashUint64 ==
    \A name \in ClusterNames, ten \in TenantStrings :
        (/\ pc # "clusterNameAndTenantFromParams"
         /\ heap[msg] \in IdentifierMessages(name, ten)
         /\ ClusterNameRegexMatch(name)
         /\ DecimalAtLeastTwo(ten)
         /\ InUint64Range(Canonical(ten))) => ParsedAs(name, ten)

\* the identifier foobar-7-10 has been parsed as cluster foobar-7, tenant 10
C19_Witness ==
    /\ pc # "clusterNameAndTenantFromParams"
    /\ heap[msg] \in IdentifierMessages(<<"f", "o", "o", "b", "a", "r", "-", "7">>, <<"1", "0">>)
    /\ clusterName = <<"f", "o", "o", "b", "a", "r", "-", "7">>
    /\ tenID = <<"1", "0">>

\* the keys of the client's message that the message for the backend is to
\* carry over, but for excluded
CarriedOver(excluded) ==
    \A k \in DOMAIN heap[msg] \ excluded :
        /\ k \in DOMAIN heap[backendStartupMsg]
        /\ heap[backendStartupMsg][k] = heap[msg][k]

\* C20 as stated: in the message for the backend every parameter of the
\* client's message other than database and options has the client's value,
\* and crdb:remote_addr is the client's remote address.
C20_OtherKeysPreserved ==
    backendStartupMsg # "nil" =>
       /\ CarriedOver({"database", "options"})
       /\ heap[backendStartupMsg]["crdb:remote_addr"] = remoteAddr

\* C20, amended: the same, for every parameter other than database, options
\* and crdb:remote_addr.
C20_OtherKeysButRemoteAddrPreserved ==
    backendStartupMsg # "nil" =>
       /\ CarriedOver({"database", "options", "crdb:remote_addr"})
       /\ heap[backendStartupMsg]["crdb:remote_addr"] = remoteAddr

\* a message with a user and an application name has been accepted
C20_Witness ==
    /\ backendStartupMsg = "outMsg"
    /\ {"user", "application_name"} \subseteq DOMAIN heap[msg]
    /\ {"user", "application_name", "crdb:remote_addr"} \subseteq DOMAIN heap[backendStartupMsg]

\* the message the parser returned holds a cluster flag in its options
FlagLeft(m) == FindAllStringSubmatch(Param(m.Parameters, "options"), 2) # << >>

\* C21 as stated: the parser applied to the message it returned succeeds
\* again, with the same parameters, the same cluster name and the same
\* tenant id.
C21_ReparseSameResult ==
    backendStartupMsg # "nil" =>
       \A r \in {ParseResult} : \A again \in {clusterNameAndTenantFromParams(r.msg)} :
          /\ again.err = NoErr
          /\ again.msg.Parameters = r.msg.Parameters
          /\ again.clusterName = clusterName
          /\ again.tenID = tenID

\* C21, amended: the parser gives the same result each time it is applied to
\* the client's message; the database of the message it returned names no
\* cluster; and applied to the message it returned, when that holds no
\* cluster flag, it fails with "missing cluster identifier" and hands the
\* message back, while a flag left in the message is read as one.
C21_ReparseMissesIdentifier ==
    backendStartupMsg # "nil" =>
       \A r \in {ParseResult} : \A again \in {clusterNameAndTenantFromParams(r.msg)} :
          /\ r.err = NoErr
          /\ r.clusterName = clusterName
          /\ r.tenID = tenID
          /\ parseDatabaseParam(Param(r.msg.Parameters, "database")).clusterIdentifier
                = EmptyStr
          /\ ~FlagLeft(r.msg) =>
                /\ again.err = "missing cluster identifier"
                /\ again.msg = r.msg
          /\ FlagLeft(r.msg) => again.err # "missing cluster identifier"

\* a message with the same identifier in the database and in a flag has been
\* accepted, and what is left of it names no cluster
C21_Witness ==
    /\ backendStartupMsg = "outMsg"
    /\ clusterName = <<"f", "o", "o", "b", "a", "r">>
    /\ tenID = <<"7">>
    /\ Param(heap[msg], "database") = <<"f", "o", "o", "b", "a", "r", "-", "7", ".", "d", "e", "f", "a", "u", "l", "t", "d", "b">>
    /\ Param(heap[msg], "options") = <<"-", "-", "c", "l", "u", "s", "t", "e", "r", "=", "f", "o", "o", "b", "a", "r", "-", "7">>
    /\ Param(heap[backendStartupMsg], "database") = <<"d", "e", "f", "a", "u", "l", "t", "d", "b">>
    /\ "options" \notin DOMAIN heap[backendStartupMsg]

\* the parser has failed, and handle has returned its error, with message m
ParserFailedWith(m) ==
    /\ pc = "returned"
    /\ backendStartupMsg = "nil"
    /\ ret.code = "codeParamsRoutingFailed"
    /\ ret.msg = m

\* what the parser says of an identifier it does not accept
IdentifierErrors ==
    {"invalid cluster identifier: missing tenant ID",
     "invalid cluster identifier: cluster name",
     "invalid cluster identifier: tenant ID",
     "invalid cluster identifier: reserved tenant ID"}

\* the parser has accepted the identifier id, or has refused it as invalid
UsesIdentifier(id) ==
    \/ \E m \in IdentifierErrors : ParserFailedWith(m)
    \/ /\ backendStartupMsg = "outMsg"
       /\ Len(id) > Len(clusterName) + 1
       /\ Sub(id, 1, Len(clusterName) + 1) = clusterName \o clusterTenantSep
       /\ Canonical(Sub(id, Len(clusterName) + 2, Len(id))) = tenID

\* C22: for a message whose database and options both parse, the parser
\* fails with "missing cluster identifier" when neither holds an identifier,
\* fails with "multiple different cluster identifiers provided" when both
\* hold one and the two differ, and otherwise goes on with the one
\* identifier there is.
C22_OneIdentifierOrError ==
    pc # "clusterNameAndTenantFromParams" =>
       \A db \in {parseDatabaseParam(Param(heap[msg], "database"))},
          opt \in {parseOptionsParam(Param(heap[msg], "options"))} :
          (db.err = NoErr /\ opt.err = NoErr) =>
             IF db.clusterIdentifier = EmptyStr /\ opt.clusterIdentifier = EmptyStr
             THEN ParserFailedWith("missing cluster identifier")
             ELSE IF db.clusterIdentifier = EmptyStr
             THEN UsesIdentifier(opt.clusterIdentifier)
             ELSE IF opt.clusterIdentifier \in {EmptyStr, db.clusterIdentifier}
             THEN UsesIdentifier(db.clusterIdentifier)
             ELSE ParserFailedWith("multiple different cluster identifiers provided")

\* a message with a database and options but no identifier in either has
\* been refused
C22_Witness ==
    /\ ParserFailedWith("missing cluster identifier")
    /\ {"database", "options"} \subseteq DOMAIN heap[msg]

\* the options of the client's message begin with the text flags
OptionsBeginWith(flags) ==
    /\ "options" \in DOMAIN heap[msg]
    /\ HasPrefixAt(heap[msg]["options"], flags, 1)
    /\ Len(heap[msg]["options"]) > Len(flags) => heap[msg]["options"][Len(flags) + 1] = " "

\* C23: options with two or more cluster flags, in any mix of the three
\* forms and with the same identifier or different ones, are refused with
\* "multiple cluster flags provided"; options whose one cluster flag has no
\* value are refused with "invalid cluster flag".
C23_FlagsRefused ==
    pc # "clusterNameAndTenantFromParams" =>
       /\ \A first \in UNION {ClusterFlags(id) : id \in FlagIdentifiers},
             second \in UNION {ClusterFlags(id) : id \in FlagIdentifiers \cup {EmptyStr}} :
             (/\ heap[msg] \in ClusterFlagMessages
              /\ OptionsBeginWith(first \o <<" ">> \o second))
                => ParserFailedWith("multiple cluster flags provided")
       /\ \A flag \in ClusterFlags(EmptyStr) :
             (/\ heap[msg] \in ClusterFlagMessages
              /\ heap[msg]["options"] \in
                    {before \o flag \o rest : before \in {EmptyStr, <<"-", "c", " ", "x", "=", "y", " ">>},
                                              rest \in {EmptyStr, <<" ", "-", "c", " ", "x", "=", "y">>}})
                => ParserFailedWith("invalid cluster flag")

\* options with the same identifier in two flags of different forms have
\* been refused
C23_Witness ==
    /\ ParserFailedWith("multiple cluster flags provided")
    /\ heap[msg]["options"] = <<"-", "c", "c", "l", "u", "s", "t", "e", "r", "=", "f", "o", "o", "b", "a", "r", "-", "7", " ", "-", "-", "c", "l", "u", "s", "t", "e", "r", "=", "f", "o", "o", "b", "a", "r", "-", "7">>

\* a name of 6 to 20 lowercase letters, digits and dashes that begins and
\* ends with a letter or a digit
ConformingName(name) ==
    /\ Len(name) \in 6..20
    /\ \A i \in 1..Len(name) : name[i] \in LowerLetters \cup Digits \cup {"-"}
    /\ {name[1], name[Len(name)]} \cap {"-"} = {}

\* a tenant id, as canonical digits, that is 2 or more
TenantAtLeastTwo(id) ==
    /\ Len(id) > 0
    /\ \A i \in 1..Len(id) : id[i] \in Digits
    /\ id \notin {<<"0">>, <<"1">>}
    /\ Len(id) > 1 => id[1] # "0"

\* C24: whenever the parser accepts a message the cluster name conforms and
\* the tenant id is 2 or more, and only then does handle go on to the
\* denylist; an identifier whose name does not conform, or whose tenant part
\* is missing, not a number, 0 or 1, is refused as an invalid cluster
\* identifier, after which handle only closes the client connection.
C24_OnlyValidIdentifiersPass ==
    pc # "clusterNameAndTenantFromParams" =>
       /\ (backendStartupMsg # "nil" \/ pc # "returned") =>
             /\ ConformingName(clusterName)
             /\ TenantAtLeastTwo(tenID)
             /\ Call("clusterNameAndTenantFromParams", NilErr) = calls[Len(calls) - (IF pc = "returned" THEN 1 ELSE 0)]
       /\ \A name \in ClusterNames, ten \in TenantStrings :
             (/\ heap[msg] \in IdentifierMessages(name, ten)
              /\ \/ ~ConformingName(name)
                 \/ ten = EmptyStr
                 \/ \E i \in 1..Len(ten) : ten[i] \notin Digits
                 \/ Canonical(ten) \in {<<"0">>, <<"1">>})
                => /\ \E m \in IdentifierErrors : ParserFailedWith(m)
                   /\ sent = << ret >>
                   /\ calls[Len(calls)].op = "conn.Close"
                   /\ calls[Len(calls) - 1].op = "clusterNameAndTenantFromParams"

\* a message with a cluster name of 20 characters has been accepted and
\* handle is about to subscribe to the denylist
C24_Witness ==
    /\ pc = "ListenForDenied"
    /\ Len(clusterName) = 20
    /\ TenantAtLeastTwo(tenID)

\* C25: when FrontendAdmit returns neither a startup message nor an error,
\* handle returns nil, sends nothing to the client, closes the client
\* connection, and calls nothing else: no parser, denylist, throttler,
\* directory or dial.
C25_CancelRequestClosesSilently ==
    (calls # << >> /\ calls[1] = Call("FrontendAdmit", NilErr) /\ msg = "nil") =>
       /\ pc = "returned"
       /\ ret = NilErr
       /\ sent = << >>
       /\ "conn" \in closed
       /\ calls = << Call("FrontendAdmit", NilErr), Call("conn.Close", NilErr) >>
       /\ backendStartupMsg = "nil"
       /\ ~listening
       /\ dials = << >>
       /\ relay = "none"

\* handle has returned from a FrontendAdmit that gave no startup message
C25_Witness ==
    /\ pc = "returned"
    /\ msg = "nil"
    /\ CallsTo("FrontendAdmit") = {1}
    /\ calls[1].err = NilErr
    /\ closed = {"conn"}

\* C26: whenever handle is at the idle-monitor wrap or at authenticate, the
\* last BackendDial returned a connection and no error, however the loop
\* ended.
C26_DialedBeforeAuthenticate ==
    pc \in {"DetectIdle", "authenticate"} =>
       /\ dials # << >>
       /\ dials[Len(dials)].err = NilErr
       /\ ~crdbConn.nil

\* C27: whenever handle has returned, the client connection is closed, and
\* so is the backend connection if one was established.
C27_ConnectionsClosedOnReturn ==
    pc = "returned" =>
       /\ "conn" \in closed
       /\ calls[Len(calls)] = Call("conn.Close", NilErr)
       /\ ~crdbConn.nil =>
             /\ "crdbConn" \in closed
             /\ CallsTo("crdbConn.Close") # {}
       /\ \A i \in 1..Len(dials) :
             dials[i].err = NilErr => ~crdbConn.nil /\ "crdbConn" \in closed

\* handle has returned after a failed authentication, with both connections
\* closed
C27_Witness ==
    /\ pc = "returned"
    /\ ret = AuthFailedErr
    /\ closed = {"conn", "crdbConn"}

\* C28: removeListener is called only when handle ends; a handle that has
\* ended after a successful ListenForDenied has called it exactly once,
\* whether or not the revocation callback had fired, and the listener is no
\* longer registered; a handle whose ListenForDenied returned an error never
\* calls it.
C28_ListenerRemovedOnce ==
    /\ ~Terminated => CallsTo("removeListener") = {}
    /\ (Terminated /\ Call("ListenForDenied", NilErr) \in {calls[k] : k \in 1..Len(calls)}) =>
          /\ Cardinality(CallsTo("removeListener")) = 1
          /\ \A k \in CallsTo("removeListener") :
                CallsAfter(k) = {"conn.Close"}
          /\ ~listening
    /\ (\E k \in CallsTo("ListenForDenied") : calls[k].err # NilErr) =>
          CallsTo("removeListener") = {}

\* handle has returned from its final wait after the revocation callback had
\* fired, and has removed the listener
C28_Witness ==
    /\ pc = "returned"
    /\ denyFired
    /\ relay # "none"
    /\ Cardinality(CallsTo("removeListener")) = 1
    /\ ~listening

\* the calls that resolve or dial
ResolveOrDialCalls ==
    CallsTo("EnsureTenantAddr") \cup CallsTo("resolveTCPAddr") \cup CallsTo("BackendDial")

\* C29: LoginCheck is called at most once, and exactly once before any
\* resolution or dial, with the client's IP and the tenant id as its tags;
\* every ReportAttempt carries those tags and the time that LoginCheck
\* returned, however many iterations the loop made; and when ReportAttempt
\* returns an error the callback yields the throttled error, which
\* authenticate hands back to handle.
C29_ThrottleTokenKept ==
    /\ Cardinality(CallsTo("LoginCheck")) = Len(loginChecks)
    /\ Len(loginChecks) <= 1
    /\ \A k \in ResolveOrDialCalls :
          /\ Len(loginChecks) = 1
          /\ \A j \in CallsTo("LoginCheck") : j < k
    /\ \A i \in 1..Len(loginChecks) :
          loginChecks[i].tags = ConnectionTags(SplitHostPort(remoteAddr).host, tenID)
    /\ \A i \in 1..Len(attempts) :
          /\ Len(loginChecks) = 1
          /\ loginChecks[1].err = NilErr
          /\ attempts[i].tags = loginChecks[1].tags
          /\ attempts[i].throttleTime = loginChecks[1].throttleTime
          /\ attempts[i].err # NilErr =>
                /\ attempts[i].yields = throttledError
                /\ pc = "returned"
                /\ ret = throttledError

\* after two iterations of the loop ReportAttempt has refused a successful
\* authentication, reported with the time LoginCheck returned
C29_Witness ==
    /\ pc = "returned"
    /\ iter = 2
    /\ Len(attempts) = 1
    /\ attempts[1].status = "AttemptOK"
    /\ attempts[1].err # NilErr
    /\ attempts[1].throttleTime \in ThrottleTimes
    /\ attempts[1].throttleTime # ZeroTime
    /\ ret = throttledError

\* the successful resolutions: the directory returned an address, or
\* resolveTCPAddr resolved the routing rule
SuccessfulResolutions ==
    {k \in CallsTo("EnsureTenantAddr") \cup CallsTo("resolveTCPAddr") :
        calls[k].err = NilErr}

\* the address that the successful resolution in the k-th call returned
ResolutionAddress(k) ==
    IF calls[k].op = "EnsureTenantAddr"
    THEN calls[k].addr
    ELSE ReplaceAll(options.RoutingRule, ClusterNamePlaceholder,
                    clusterName \o <<"-">> \o tenID)

\* the call that was the i-th BackendDial
DialCall(i) ==
    CHOOSE k \in CallsTo("BackendDial") :
        Cardinality({j \in CallsTo("BackendDial") : j <= k}) = i

\* C30: every BackendDial is called right after a successful resolution, with
\* no other call and no earlier dial between, and with the address that this
\* resolution returned; and when handle is about to dial, the resolution is
\* its last call and outgoingAddress is what it returned.
C30_DialsFreshResolution ==
    /\ Len(dials) = Cardinality(CallsTo("BackendDial"))
    /\ \A i \in 1..Len(dials) :
          \A k \in {DialCall(i)} :
             /\ k - 1 \in SuccessfulResolutions
             /\ dials[i].addr = ResolutionAddress(k - 1)
    /\ pc = "BackendDial" =>
          /\ Len(calls) \in SuccessfulResolutions
          /\ outgoingAddress = ResolutionAddress(Len(calls))

\* the directory returned one address, the dial of it failed with
\* codeBackendDown, the directory then returned another address, and the
\* second dial went to that one
C30_Witness ==
    /\ handler.directory
    /\ Len(dials) = 2
    /\ IsBackendDown(dials[1].err)
    /\ dials[1].addr # dials[2].addr
    /\ Cardinality(SuccessfulResolutions) = 2
    /\ \A k \in SuccessfulResolutions : calls[k].op = "EnsureTenantAddr"
    /\ dials[2].addr = calls[DialCall(2) - 1].addr

\* the successful resolutions whose address does not split into host and port
UnsplittableResolutions ==
    {k \in SuccessfulResolutions : ~SplitHostPort(ResolutionAddress(k)).ok}

\* C31: BackendDial is given a nil TLS configuration exactly when Insecure is
\* set, and otherwise one whose ServerName is the host of the dialed address
\* and whose InsecureSkipVerify is SkipVerify; and when Insecure is not set
\* and the resolved address does not split into host and port, handle sends
\* the codeParamsRoutingFailed error to the client and returns it, having
\* dialed nothing and resolved nothing after.
C31_TLSConfigOfDial ==
    /\ \A i \in 1..Len(dials) :
          /\ dials[i].tlsConf.nil <=> options.Insecure
          /\ options.Insecure => dials[i].tlsConf = NilTLSConfig
          /\ ~options.Insecure =>
                /\ SplitHostPort(dials[i].addr).ok
                /\ dials[i].tlsConf.ServerName = SplitHostPort(dials[i].addr).host
                /\ dials[i].tlsConf.InsecureSkipVerify = options.SkipVerify
    /\ ~options.Insecure =>
          \A k \in UnsplittableResolutions :
             \/ pc = "BackendDial" /\ k = Len(calls)
             \/ /\ pc = "returned"
                /\ ret = ClusterNotFoundErr(clusterName, tenID)
                /\ ret.code = "codeParamsRoutingFailed"
                /\ sent = << ret >>
                /\ CallsAfter(k) \cap {"BackendDial", "EnsureTenantAddr",
                                       "resolveTCPAddr", "ReportFailure"} = {}
                /\ \A i \in 1..Len(dials) : dials[i].addr # ResolutionAddress(k)

\* a dial with a verifying TLS configuration has been made, and a second
\* resolution gave an address that does not split, which ended the connection
C31_Witness ==
    /\ ~options.Insecure
    /\ ~options.SkipVerify
    /\ Len(dials) = 1
    /\ ~dials[1].tlsConf.nil
    /\ dials[1].tlsConf.ServerName = <<"1", "0", ".", "1", ".", "0", ".", "1">>
    /\ UnsplittableResolutions # {}
    /\ pc = "returned"
    /\ ret.code = "codeParamsRoutingFailed"

\* the routing rule with every {{clusterName}} replaced by new
RuleWith(new) == ReplaceAll(options.RoutingRule, ClusterNamePlaceholder, new)

\* without a directory handle calls resolveTCPAddr and never the directory;
\* a failure of resolveTCPAddr is a NotFound, after which handle resolves and
\* dials nothing more and ends with the codeParamsRoutingFailed error
RuleResolvedOrRefused ==
    /\ CallsTo("EnsureTenantAddr") = {}
    /\ \A k \in CallsTo("BackendDial") :
          k > 1 /\ calls[k - 1] = Call("resolveTCPAddr", NilErr)
    /\ \A k \in CallsTo("resolveTCPAddr") :
          calls[k].err # NilErr =>
             /\ calls[k].err.grpc = "NotFound"
             /\ CallsAfter(k) \cap {"resolveTCPAddr", "BackendDial"} = {}
             /\ \/ /\ pc = "afterLoop"
                   /\ err = ClusterNotFoundErr(clusterName, tenID)
                \/ /\ pc = "returned"
                   /\ ret = ClusterNotFoundErr(clusterName, tenID)
                   /\ ret.code = "codeParamsRoutingFailed"
                   /\ sent = << ret >>

\* the address handle dials, or is about to dial, is a
DialsOnly(a) ==
    /\ \A i \in 1..Len(dials) : dials[i].addr = a
    /\ pc = "BackendDial" => outgoingAddress = a

NoIdleDisconnect ==
    /\ \A i \in 1..Len(errConnection) : errConnection[i].code # "codeIdleDisconnect"
    /\ firstErr.code # "codeIdleDisconnect"
    /\ ret.code # "codeIdleDisconnect"
    /\ \A i \in 1..Len(sent) : sent[i].code # "codeIdleDisconnect"

\* C33: the idle monitor and the pod watcher exist only when DirectoryAddr is
\* set and DrainTimeout is not 0; without them no pod event arms an address,
\* no connection is passed to DetectIdle, the idle callback never fires and
\* nothing carries codeIdleDisconnect, which is so whenever DrainTimeout is 0.
\* When the idle callback fires on an empty errConnection, what errConnection
\* holds until handle reads it, and what handle then returns, is the
\* codeIdleDisconnect error.
C33_IdleMonitorOnlyWithDrainTimeout ==
    /\ handler.idleMonitor <=> (options.DirectoryAddr # "" /\ options.DrainTimeout # 0)
    /\ options.DrainTimeout = 0 => ~handler.idleMonitor
    /\ ~handler.idleMonitor =>
          /\ armed = {}
          /\ CallsTo("DetectIdle") = {}
          /\ ~crdbConn.wrapped
          /\ ~idleFired
          /\ NoIdleDisconnect
    /\ idleFired => crdbConn.wrapped
    /\ (firstErr.code = "codeIdleDisconnect") => idleFired
    /\ (idleFired /\ firstErr = IdleDisconnectErr) =>
          /\ firstErr.code = "codeIdleDisconnect"
          /\ ~viaSlot => errConnection = << IdleDisconnectErr >>
          /\ viaSlot => ret = IdleDisconnectErr

\* the idle callback has fired on an empty errConnection, which now holds
\* the codeIdleDisconnect error, while handle waits in its select
C33_Witness ==
    /\ options.DrainTimeout # 0
    /\ pc = "select"
    /\ idleFired
    /\ ~denyFired
    /\ relay = "copying"
    /\ Len(errConnection) = 1
    /\ errConnection[1].code = "codeIdleDisconnect"

\* the step in which handle calls clusterNameAndTenantFromParams and, after a
\* success, assigns crdb:remote_addr through the message returned: the
\* message given keeps its parameters; a failed call returns the message
\* given, as it was; a successful call returns another message, and the
\* assignment of crdb:remote_addr goes to that one
ParseKeepsOriginal(r) ==
    /\ msg' = msg
    /\ heap'[msg] = heap[msg]
    /\ r.err # NoErr =>
          /\ r.msg = [obj |-> msg, Parameters |-> heap[msg]]
          /\ heap' = heap
    /\ r.err = NoErr =>
          /\ r.msg.obj # msg
          /\ backendStartupMsg' = r.msg.obj
          /\ heap'[backendStartupMsg'] =
                SetParam(r.msg.Parameters, "crdb:remote_addr", remoteAddr)
          /\ DOMAIN heap' = {msg, backendStartupMsg'}

\* C34: clusterNameAndTenantFromParams never modifies the startup message it
\* is given: after a success it has returned a new message with a map of its
\* own, so that adding crdb:remote_addr leaves the original as it was, and
\* after any failure it has returned the original with its parameters
\* unchanged.
C34_OriginalMessageKept ==
    [][pc = "clusterNameAndTenantFromParams" => ParseKeepsOriginal(ParseResult)]_vars

\* the parameters were rewritten in a second message, which got
\* crdb:remote_addr, while the first still has its identifier and its flag
C34_Witness ==
    /\ pc = "ListenForDenied"
    /\ backendStartupMsg = "outMsg"
    /\ "crdb:remote_addr" \in DOMAIN heap["outMsg"]
    /\ "crdb:remote_addr" \notin DOMAIN heap["msg"]
    /\ {"database", "options"} \subseteq DOMAIN heap["msg"]
    /\ "options" \notin DOMAIN heap["outMsg"]
    /\ heap["outMsg"]["database"] # heap["msg"]["database"]

\* the database of out is that of orig with an "<identifier>." before it
\* taken away, or as it was, and has no dot
BareDatabase(orig, out) ==
    "database" \in DOMAIN orig =>
       /\ "database" \in DOMAIN out
       /\ \A d \in {out["database"]} : \A o \in {orig["database"]} :
             /\ \A i \in 1..Len(d) : d[i] # "."
             /\ \/ o = d
                \/ /\ Len(o) > Len(d) + 1
                   /\ Len(d) > 0
                   /\ o[Len(o) - Len(d)] = "."
                   /\ Sub(o, Len(o) - Len(d) + 1, Len(o)) = d

\* options without the text of its cluster flag (if any) and trimmed
WithoutFlag(o, matches) ==
    IF matches = << >> THEN o
    ELSE TrimSpace(ReplaceAll(o, Sub(o, matches[1].first, matches[1].last), EmptyStr))

\* the options of out are those of orig without the cluster flag, trimmed,
\* and out has no options when nothing is left
StrippedOptions(orig, out) ==
    "options" \in DOMAIN orig =>
       \A left \in {WithoutFlag(orig["options"],
                                FindAllStringSubmatch(orig["options"], 2))} :
          IF left = EmptyStr
          THEN "options" \notin DOMAIN out
          ELSE "options" \in DOMAIN out /\ out["options"] = left

\* neither the database nor the options of the parameters name a cluster
NoIdentifierIn(params) ==
    /\ parseDatabaseParam(Param(params, "database")).clusterIdentifier = EmptyStr
    /\ FindAllStringSubmatch(Param(params, "options"), 2) = << >>

\* C35 as stated: in every rewritten message the database is the bare
\* database name, the options are the original ones without the cluster flag
\* and trimmed, absent when nothing is left, and neither parameter holds a
\* cluster identifier.
C35_RewrittenHoldsNoIdentifier ==
    backendStartupMsg # "nil" =>
       /\ BareDatabase(heap[msg], heap[backendStartupMsg])
       /\ StrippedOptions(heap[msg], heap[backendStartupMsg])
       /\ NoIdentifierIn(heap[backendStartupMsg])

\* the positions of the dots of d
Dots(d) == {i \in 1..Len(d) : d[i] = "."}

\* d has one dot, with text on both sides of it
OneDotBothSides(d) ==
    /\ Cardinality(Dots(d)) = 1
    /\ \A i \in Dots(d) : 1 < i /\ i < Len(d)

\* handle has a message from the parser whose database is name, for the
\* cluster that identifier names
AcceptedAs(identifier, name) ==
    /\ backendStartupMsg # "nil"
    /\ Param(heap[backendStartupMsg], "database") = name
    /\ \A sep \in {LastIndex(identifier, clusterTenantSep)} :
          /\ clusterName = Sub(identifier, 1, sep - 1)
          /\ ParseUint(Sub(identifier, sep + 1, Len(identifier))).val = tenID

\* the parser is done with the client's message
Parsed == pc # "clusterNameAndTenantFromParams"

\* C36: a database without a dot is never refused as an invalid database
\* param, carries no identifier (the one in the options is used, and without
\* one the identifier is missing) and is passed on unchanged; a database
\* with one dot and text on both sides is not refused as invalid either, and
\* when the message is accepted the left part is the identifier and the
\* right part the database passed on; any other database is refused with
\* "invalid database param", whatever the options hold.
C36_DatabaseParamShapes ==
    Parsed =>
       \A d \in {Param(heap[msg], "database")} :
          \A flag \in {parseOptionsParam(Param(heap[msg], "options"))} :
             IF Dots(d) = {}
             THEN /\ ~ParserFailedWith("invalid database param")
                  /\ backendStartupMsg # "nil" =>
                        AcceptedAs(flag.clusterIdentifier, d)
                  /\ (flag.err = NoErr /\ flag.clusterIdentifier = EmptyStr) =>
                        ParserFailedWith("missing cluster identifier")
             ELSE IF OneDotBothSides(d)
             THEN /\ ~ParserFailedWith("invalid database param")
                  /\ \A i \in Dots(d) :
                        /\ backendStartupMsg # "nil" =>
                              AcceptedAs(Sub(d, 1, i - 1), Sub(d, i + 1, Len(d)))
                        /\ (flag.err = NoErr
                              /\ flag.clusterIdentifier \notin {EmptyStr, Sub(d, 1, i - 1)}) =>
                              ParserFailedWith("multiple different cluster identifiers provided")
             ELSE /\ ParserFailedWith("invalid database param")
                  /\ sent = << ret >>

\* a database with two dots has been refused although the options hold a
\* cluster flag with a valid identifier
C36_Witness ==
    /\ ParserFailedWith("invalid database param")
    /\ Param(heap[msg], "database") = <<"f", "o", "o", "b", "a", "r", "-", "7", ".", "p", "u", "b", "l", "i", "c", ".", "d", "e", "f", "a", "u", "l", "t", "d", "b">>
    /\ Param(heap[msg], "options") = <<"-", "-", "c", "l", "u", "s", "t", "e", "r", "=", "f", "o", "o", "b", "a", "r", "-", "7">>

====
